---- MODULE Spec2Model ----
(***************************************************************************)
(* QMLSense workspace indexer: the source-file index, the module registry  *)
(* and the SQLite cache store.                                             *)
(*                                                                         *)
(* The repository holds two generations of the indexer side by side.       *)
(*   gen = 1  the "vertical slice" indexer: QmlFileIndexer with the        *)
(*            DependencyResolver (dependsOn / dependedBy, cascading        *)
(*            invalidation), ModuleIndexer with ModuleCache, and the       *)
(*            CacheStore keyed by file path.                               *)
(*   gen = 2  "Indexer v2": QmlFileIndexer and ModuleIndexer over plain    *)
(*            maps, sharing one CacheStore keyed by uri.                   *)
(* A behaviour runs one generation; Init chooses it.                       *)
(***************************************************************************)
EXTENDS Integers, Sequences, FiniteSets, TLC

VARIABLES
    gen,         \* which generation of the indexer runs (1 or 2)
    persistent,  \* gen 1: persistentCache # null (a workspace folder is open)
    folder,      \* the folder of the workspace each .qml file lies in
    fs,          \* the .qml files on disk: text and modification time
    fileIndex,   \* QmlFileIndexer.fileIndex / QmlFileIndexer.files
    qmlRows,     \* table qml_files of the store
    scan,        \* progress of QmlFileIndexer.indexWorkspace
    events,      \* watcher events raised and not yet handled
    tasks,       \* indexing tasks that have read their file and not yet settled
    last,        \* what the last operation was and returned
    edits,       \* number of file-system edits so far
    manifests,   \* the qmldir files on disk: lines and modification time
    registry,    \* ModuleCache.cache / ModuleIndexer.modules, in insertion order
    moduleRows,  \* table modules of the store
    componentRows, \* table components of the store
    mscan,       \* the manifests indexWorkspaceModules has still to index
    db,          \* CacheStore.db: the open transaction of the one connection
    service      \* IndexerService: isInitialized, what initialize has created

fileSide == <<fs, fileIndex, qmlRows, scan>>

moduleSide == <<manifests, registry, moduleRows, componentRows, mscan>>

facadeSide == <<db, service>>

vars == <<gen, persistent, folder, events, tasks, last, edits, fileSide, moduleSide, facadeSide>>

----------------------------------------------------------------------------
(* Bounds *)

MaxTime    == 1   \* modification times range over 0..MaxTime
MaxEdits   == 1   \* file-system edits per behaviour

(* indexing.batchSize as configured for the modelled workspace *)
BATCH_SIZE == 2

MaxPending == 2   \* watcher events raised and not yet handled, in SpecWatch

----------------------------------------------------------------------------
(* The connection and the facade *)

(* The connection outside a transaction. *)
NoTransaction == [inTransaction |-> FALSE, journal |-> <<>>]

(* new IndexerService(): isInitialized, and what the calls of initialize so
   far (calls) have created and done, in order (steps). *)
NoService ==
    [isInitialized |-> FALSE, calls |-> 0, connections |-> 0, fileWatchers |-> 0,
     moduleWatchers |-> 0, steps |-> <<>>]

(* No transaction is open and the facade is as constructed. *)
FacadeIdle == db = NoTransaction /\ service = NoService

----------------------------------------------------------------------------
(* The workspace *)

Files == {"A.qml", "B.qml", "C.qml"}

FileOrder == <<"A.qml", "B.qml", "C.qml">>

(* The files of the two-file workspace of SpecFiles. *)
SmallFiles == {"A.qml", "B.qml"}

TimeStamps == 0 .. MaxTime

(* One import statement as extractImports classifies it. *)
ImportMenu == [type : {"file"}, source : Files]

(* A file text: its import statements, and whether the parser throws on it.
   The texts of the model import nothing or one file. *)
Texts ==
    [imports : {<<>>} \cup {<<i>> : i \in ImportMenu}, malformed : {FALSE}]
        \cup {[imports |-> <<>>, malformed |-> TRUE]}

EmptyText == [imports |-> <<>>, malformed |-> FALSE]

(* The texts of the two-file workspace: no import, an import of A.qml, or a
   text the parser rejects. *)
SmallTexts == {t \in Texts : t.imports \in {<<>>, <<[type |-> "file", source |-> "A.qml"]>>}}

NoFile == [exists |-> FALSE, text |-> EmptyText, mtime |-> 0]

(* Every file directly in the workspace folder. *)
AtRoot == [f \in Files |-> ""]

(* The folders a file lies in in SpecExclude: the workspace folder itself, an
   excluded folder directly in it, an excluded folder further down. *)
FolderMenu == {"", "build/", "lib/build/"}

(* vscode.workspace.asRelativePath(uri, false) *)
RelativePath(f) == folder[f] \o f

(* qml.indexing.ignoreFolders, its default *)
ignoreFolders ==
    <<"**/node_modules/**", "**/build/**", "**/dist/**", "**/.git/**", "**/out/**">>

(* String.prototype.includes *)
Includes(s, sub) ==
    \E i \in 1 .. (Len(s) - Len(sub) + 1) : SubSeq(s, i, i + Len(sub) - 1) = sub

(* pattern.replace(/\*\*/g, '').replace(/\*/g, '') *)
RECURSIVE cleanPattern(_)
cleanPattern(pattern) ==
    IF pattern = "" THEN ""
    ELSE IF SubSeq(pattern, 1, 1) = "*" THEN cleanPattern(SubSeq(pattern, 2, Len(pattern)))
    ELSE SubSeq(pattern, 1, 1) \o cleanPattern(SubSeq(pattern, 2, Len(pattern)))

(* The path has a folder that a pattern **/name/** of ignoreFolders names, at
   any depth: what the exclude glob of findFiles matches. *)
InExcludedFolder(path) ==
    \E i \in 1 .. Len(ignoreFolders) : Includes("/" \o path, cleanPattern(ignoreFolders[i]))

(* FileWatcher.shouldIgnore: some pattern, its stars taken out, is a
   substring of the relative path. *)
shouldIgnore(path) ==
    \E i \in 1 .. Len(ignoreFolders) : Includes(path, cleanPattern(ignoreFolders[i]))

SeqToSet(s) == {s[i] : i \in 1 .. Len(s)}

RECURSIVE SelectFiles(_, _)
SelectFiles(s, S) ==
    IF s = <<>> THEN <<>>
    ELSE IF Head(s) \in S THEN <<Head(s)>> \o SelectFiles(Tail(s), S)
    ELSE SelectFiles(Tail(s), S)

----------------------------------------------------------------------------
(* Pure helpers of the indexer *)

hashContent(text) == <<"sha256", text>>

NoHash == <<"none">>

(* vscode.workspace.fs.stat wrapped by getFileModTime: 0 when stat throws *)
getFileModTime(disk, f) == IF disk[f].exists THEN disk[f].mtime ELSE 0

RECURSIVE resolveDependencies(_)
resolveDependencies(imports) ==
    IF imports = <<>> THEN <<>>
    ELSE IF Head(imports).type = "file"
         THEN <<Head(imports).source>> \o resolveDependencies(Tail(imports))
         ELSE resolveDependencies(Tail(imports))

NoEntry ==
    [live |-> FALSE, imports |-> <<>>, hash |-> NoHash, mtime |-> 0,
     dependsOn |-> <<>>, dependedBy |-> <<>>]

NoRow == [present |-> FALSE, imports |-> <<>>, hash |-> NoHash, mtime |-> 0, dependsOn |-> <<>>]

(* The entry built from a parsed text. Generation 2 keeps no dependency edges. *)
ParsedEntry(g, text, mtime) ==
    [live |-> TRUE, imports |-> text.imports, hash |-> hashContent(text), mtime |-> mtime,
     dependsOn |-> IF g = 1 THEN resolveDependencies(text.imports) ELSE <<>>,
     dependedBy |-> <<>>]

(* The row written for an entry: dependedBy is not persisted. *)
RowOfEntry(e) ==
    [present |-> TRUE, imports |-> e.imports, hash |-> e.hash, mtime |-> e.mtime,
     dependsOn |-> e.dependsOn]

(* A rebuild that loses the import list of the row. *)
EntryOfRow_NoImports(r) ==
    [live |-> TRUE, imports |-> <<>>, hash |-> r.hash, mtime |-> r.mtime,
     dependsOn |-> r.dependsOn, dependedBy |-> <<>>]

(* The entry rebuilt from a row. *)
EntryOfRow(r) ==
    [live |-> TRUE, imports |-> r.imports, hash |-> r.hash, mtime |-> r.mtime,
     dependsOn |-> r.dependsOn, dependedBy |-> <<>>]

----------------------------------------------------------------------------
(* CacheStore, table qml_files *)

(* A delete whose WHERE clause matches no row. *)
removeQmlFile_NoMatch(rows, f) == rows

(* DELETE FROM qml_files WHERE file_path = ? *)
removeQmlFile(rows, f) == [rows EXCEPT ![f] = NoRow]

(* loadQmlFile: a row is returned only when its timestamp equals a fresh stat;
   a row that fails the comparison is deleted. *)
loadQmlFile(rows, disk, f) ==
    IF ~rows[f].present
    THEN [hit |-> FALSE, entry |-> NoEntry, rows |-> rows]
    ELSE IF getFileModTime(disk, f) # rows[f].mtime
    THEN [hit |-> FALSE, entry |-> NoEntry, rows |-> removeQmlFile(rows, f)]
    ELSE [hit |-> TRUE, entry |-> EntryOfRow(rows[f]), rows |-> rows]

(* loadAllQmlFiles: every row goes through the same validation. *)
loadAllQmlFiles(rows, disk) ==
    [loaded |-> [f \in Files |-> loadQmlFile(rows, disk, f).entry],
     rows   |-> [f \in Files |-> loadQmlFile(rows, disk, f).rows[f]]]

(* The statements of one saveQmlFilesBatch transaction, run in order.
   failed: the positions whose INSERT OR REPLACE reports an error. *)
RECURSIVE RunInserts(_, _, _, _)
RunInserts(rows, batch, i, failed) ==
    IF i > Len(batch) THEN rows
    ELSE RunInserts(IF i \in failed THEN rows
                    ELSE [rows EXCEPT ![batch[i].file] = RowOfEntry(batch[i].entry)],
                    batch, i + 1, failed)

(* saveQmlFilesBatch: BEGIN, one stmt.run per file without a callback,
   stmt.finalize(cb): ROLLBACK when finalize reports an error, else COMMIT. *)
saveQmlFilesBatch(rows, batch, failed, finalizeErr) ==
    IF batch = <<>> THEN [ok |-> TRUE, rows |-> rows]
    ELSE IF finalizeErr THEN [ok |-> FALSE, rows |-> rows]
    ELSE [ok |-> TRUE, rows |-> RunInserts(rows, batch, 1, failed)]

(* What goes wrong in one saveQmlFilesBatch call of the indexer: the
   positions whose INSERT reports an error, and whether finalize does. *)
NoFault == [failed |-> {}, finalizeErr |-> FALSE]

FinalizeFault == [failed |-> {}, finalizeErr |-> TRUE]

StatementFault == [failed |-> {1}, finalizeErr |-> FALSE]

SaveFaultMenu == {NoFault, FinalizeFault, StatementFault}

(* A statement of the batch or its finalize reported an error. *)
Faulty(batch, fault) ==
    batch # <<>> /\ (fault.finalizeErr \/ fault.failed \cap (1 .. Len(batch)) # {})

----------------------------------------------------------------------------
(* DependencyResolver *)

(* A rebuild that records the reverse edge whether or not the target has an
   entry. *)
RECURSIVE PushDependedBy_AnyTarget(_, _, _)
PushDependedBy_AnyTarget(index, from, deps) ==
    IF deps = <<>> THEN index
    ELSE PushDependedBy_AnyTarget([index EXCEPT ![Head(deps)].dependedBy = Append(@, from)],
                                  from, Tail(deps))

(* The inner loop of buildDependencyGraph: entry.uri is pushed on the
   dependedBy of every dependsOn target that has an entry. *)
RECURSIVE PushDependedBy(_, _, _)
PushDependedBy(index, from, deps) ==
    IF deps = <<>> THEN index
    ELSE LET d == Head(deps)
             next == IF index[d].live
                     THEN [index EXCEPT ![d].dependedBy = Append(@, from)]
                     ELSE index
         IN  PushDependedBy(next, from, Tail(deps))

RECURSIVE BuildFrom(_, _)
BuildFrom(index, order) ==
    IF order = <<>> THEN index
    ELSE LET f == Head(order)
         IN  BuildFrom(IF index[f].live THEN PushDependedBy(index, f, index[f].dependsOn)
                       ELSE index,
                       Tail(order))

(* buildDependencyGraph: reset every dependedBy, then push one reverse edge
   for every dependsOn edge whose target has an entry. *)
buildDependencyGraph(index) ==
    BuildFrom([f \in Files |-> IF index[f].live THEN [index[f] EXCEPT !.dependedBy = <<>>]
                                ELSE index[f]],
              FileOrder)

----------------------------------------------------------------------------
(* QmlFileIndexer, generation 1 *)

(* An invalidation that deletes the entry and does not visit its dependedBy. *)
invalidateFile_RootOnly(index, removed, f) ==
    IF ~index[f].live THEN [index |-> index, removed |-> removed]
    ELSE [index |-> [index EXCEPT ![f] = NoEntry], removed |-> Append(removed, f)]

(* invalidateFile: return when the uri has no entry; otherwise delete it and
   recurse into every uri of its dependedBy. removed logs the deletions. *)
RECURSIVE invalidateFile(_, _, _)
RECURSIVE InvalidateEach(_, _, _)
invalidateFile(index, removed, f) ==
    IF ~index[f].live THEN [index |-> index, removed |-> removed]
    ELSE InvalidateEach([index EXCEPT ![f] = NoEntry], Append(removed, f), index[f].dependedBy)

InvalidateEach(index, removed, dependents) ==
    IF dependents = <<>> THEN [index |-> index, removed |-> removed]
    ELSE LET r == invalidateFile(index, removed, Head(dependents))
         IN  InvalidateEach(r.index, r.removed, Tail(dependents))

(* indexFileForBatch: a valid row of the store is taken over as the entry;
   otherwise the file is read, parsed and entered with dependedBy = []. *)
indexFileForBatch(index, rows, disk, pers, f) ==
    LET ld == IF pers THEN loadQmlFile(rows, disk, f)
              ELSE [hit |-> FALSE, entry |-> NoEntry, rows |-> rows]
    IN  IF ld.hit
        THEN [ok |-> TRUE, parsed |-> FALSE, entry |-> ld.entry,
              index |-> [index EXCEPT ![f] = ld.entry], rows |-> ld.rows]
        ELSE IF ~disk[f].exists \/ disk[f].text.malformed
        THEN [ok |-> FALSE, parsed |-> FALSE, entry |-> NoEntry, index |-> index, rows |-> ld.rows]
        ELSE LET e == ParsedEntry(1, disk[f].text, disk[f].mtime)
             IN  [ok |-> TRUE, parsed |-> TRUE, entry |-> e,
                  index |-> [index EXCEPT ![f] = e], rows |-> ld.rows]

(* indexFile (interactive): indexFileForBatch, then the entry is saved; a
   rejected save is caught and logged. *)
indexFile1(index, rows, disk, pers, f, fault) ==
    LET r == indexFileForBatch(index, rows, disk, pers, f)
        batch == <<[file |-> f, entry |-> r.entry]>>
        saved == saveQmlFilesBatch(r.rows, batch, fault.failed, fault.finalizeErr)
    IN  IF r.ok /\ pers
        THEN [ok |-> r.ok, parsed |-> r.parsed, entry |-> r.entry, index |-> r.index,
              rows |-> saved.rows, saveFailed |-> Faulty(batch, fault), handed |-> r.entry]
        ELSE [ok |-> r.ok, parsed |-> r.parsed, entry |-> r.entry, index |-> r.index,
              rows |-> r.rows, saveFailed |-> FALSE, handed |-> NoEntry]

----------------------------------------------------------------------------
(* QmlFileIndexer, generation 2 *)

(* indexFile: read and stat, return the resident entry when digest and
   timestamp both match, otherwise parse, enter and (saveToCache) save. A
   rejected save lands in the catch of indexFile, which returns null; the
   entry was entered before the save. *)
indexFile2(index, rows, disk, f, saveToCache, fault) ==
    LET none == [ok |-> FALSE, parsed |-> FALSE, entry |-> NoEntry, index |-> index,
                 rows |-> rows, saveFailed |-> FALSE, handed |-> NoEntry]
    IN  IF ~disk[f].exists THEN none
        ELSE IF index[f].live /\ index[f].hash = hashContent(disk[f].text)
                              /\ index[f].mtime = disk[f].mtime
        THEN [none EXCEPT !.ok = TRUE, !.entry = index[f]]
        ELSE IF disk[f].text.malformed THEN none
        ELSE LET e == ParsedEntry(2, disk[f].text, disk[f].mtime)
                 batch == <<[file |-> f, entry |-> e]>>
                 saved == saveQmlFilesBatch(rows, batch, fault.failed, fault.finalizeErr)
             IN  IF saveToCache
                 THEN [ok |-> saved.ok, parsed |-> TRUE,
                       entry |-> IF saved.ok THEN e ELSE NoEntry,
                       index |-> [index EXCEPT ![f] = e],
                       rows |-> saved.rows, saveFailed |-> Faulty(batch, fault), handed |-> e]
                 ELSE [ok |-> TRUE, parsed |-> TRUE, entry |-> e,
                       index |-> [index EXCEPT ![f] = e],
                       rows |-> rows, saveFailed |-> FALSE, handed |-> NoEntry]

----------------------------------------------------------------------------
(* Module manifests (qmldir files) *)

(* The manifests of the workspace, named by their path below its root. *)
Manifests == {"src/Foo/Bar/qmldir", "Widgets/qmldir"}

ManifestOrder == <<"src/Foo/Bar/qmldir", "Widgets/qmldir">>

(* path.dirname of a manifest, as the segments below the workspace root. *)
ModuleDir(m) ==
    IF m = "src/Foo/Bar/qmldir" THEN <<"src", "Foo", "Bar">> ELSE <<"Widgets">>

(* parts.join('.') *)
RECURSIVE JoinDots(_)
JoinDots(parts) ==
    IF parts = <<>> THEN ""
    ELSE IF Len(parts) = 1 THEN parts[1]
    ELSE parts[1] \o "." \o JoinDots(Tail(parts))

(* name.split('.') *)
RECURSIVE SplitDots(_)
SplitDots(name) ==
    LET dots == {i \in 1 .. Len(name) : SubSeq(name, i, i) = "."}
        first == CHOOSE i \in dots : \A j \in dots : i <= j
    IN  IF dots = {} THEN <<name>>
        ELSE <<SubSeq(name, 1, first - 1)>> \o SplitDots(SubSeq(name, first + 1, Len(name)))

(* s.endsWith(t) *)
EndsWith(s, t) == Len(t) <= Len(s) /\ SubSeq(s, Len(s) - Len(t) + 1, Len(s)) = t

(* parts.slice(-n) *)
LastParts(parts, n) == SubSeq(parts, Len(parts) - n + 1, Len(parts))

(* A manifest text is the sequence of its trimmed lines, a line the sequence
   of its whitespace-separated tokens. *)
TextEmpty     == <<>>
TextButton    == << <<"module", "Foo.Bar">>, <<"Button", "1.0", "Button.qml">>,
                    <<"#", "controls">>, <<"singleton", "Theme", "1.0", "Theme.qml">>,
                    <<"typeinfo", "plugins.qmltypes">> >>
TextNoTypes   == << <<"module", "Foo.Bar">>, <<>>, <<"#", "nothing", "declared", "yet">>,
                    <<"singleton", "Theme">> >>
TextUnnamed   == << <<"Button", "1.0", "Button.qml">> >>
TextOther     == << <<"module", "Other">>, <<"Card", "2.0", "Card.qml">> >>

(* Manifests whose declared names share suffixes with one another or with the
   builtin catalog. *)
TextAWidgets   == << <<"module", "A.Widgets">>, <<"Panel", "1.0", "Panel.qml">> >>
TextBWidgets   == << <<"module", "B.Widgets">>, <<"Knob", "1.0", "Knob.qml">> >>
TextMyControls == << <<"module", "My.Controls">>, <<"Slider", "1.0", "Slider.qml">> >>
TextQtControls == << <<"module", "QtQuick.Controls">>, <<"Button", "1.0", "Button.qml">> >>
TextFooBarBaz  == << <<"module", "Foo.Bar.Baz">>, <<"Gauge", "1.0", "Gauge.qml">> >>
TextFooBarBazJoined == << <<"module", "Foo.BarBaz">>, <<"Dial", "1.0", "Dial.qml">> >>

ManifestTexts == {TextEmpty, TextButton, TextNoTypes, TextUnnamed, TextOther}

NoManifest == [exists |-> FALSE, text |-> TextEmpty, mtime |-> 0]

NameOrder == <<"Foo.Bar", "Other", "Bar", "Widgets", "QtQuick.Controls",
               "A.Widgets", "B.Widgets", "My.Controls", "Foo.Bar.Baz", "Foo.BarBaz">>

ModuleNames == {NameOrder[i] : i \in 1 .. Len(NameOrder)}

NoPath == "none"

RootMarkers == {"Modules", "imports", "qml", "src"}

(* ModuleResolver.inferModuleName with a workspace folder open: the segments
   after the first root marker, or all segments, joined by dots. *)
inferModuleName(moduleDir) ==
    LET marked == {i \in 1 .. Len(moduleDir) : moduleDir[i] \in RootMarkers}
        qmlRootIndex == IF marked = {} THEN 0
                        ELSE CHOOSE i \in marked : \A j \in marked : i <= j
    IN  IF qmlRootIndex # 0 /\ qmlRootIndex < Len(moduleDir)
        THEN JoinDots(SubSeq(moduleDir, qmlRootIndex + 1, Len(moduleDir)))
        ELSE JoinDots(moduleDir)

(* path.basename *)
basename(moduleDir) == JoinDots(<<moduleDir[Len(moduleDir)]>>)

(* parts[i], the empty string standing for undefined *)
Part(parts, i) == IF i <= Len(parts) THEN parts[i] ELSE ""

NoQmldirEntry == [type |-> "none", moduleName |-> "", typeName |-> "", version |-> "", filePath |-> ""]

(* ModuleExtractor.parseLine (generation 1). *)
parseLine(parts) ==
    LET keyword == parts[1]
        e == NoQmldirEntry
    IN  CASE keyword = "module" ->
                [e EXCEPT !.type = "module", !.moduleName = Part(parts, 2)]
          [] keyword = "singleton" ->
                IF Len(parts) >= 4
                THEN [e EXCEPT !.type = "singleton", !.typeName = parts[2],
                               !.version = parts[3], !.filePath = parts[4]]
                ELSE e
          [] keyword = "typeinfo" ->
                [e EXCEPT !.type = "typeinfo", !.filePath = Part(parts, 2)]
          [] keyword \in {"plugin", "optional"} ->
                [e EXCEPT !.type = keyword, !.moduleName = Part(parts, 2)]
          [] keyword \in {"classname", "default"} ->
                [e EXCEPT !.type = keyword, !.typeName = Part(parts, 2)]
          [] keyword \in {"depends", "import"} ->
                IF Len(parts) >= 3
                THEN [e EXCEPT !.type = keyword, !.moduleName = parts[2], !.version = parts[3]]
                ELSE e
          [] keyword = "designersupported" ->
                [e EXCEPT !.type = "designersupported"]
          [] OTHER ->
                IF Len(parts) >= 3
                THEN [e EXCEPT !.type = "module", !.typeName = parts[1],
                               !.version = parts[2], !.filePath = parts[3]]
                ELSE e

(* The line loop of parseQmldir (generation 2). *)
parseQmldirLine(parts) ==
    LET keyword == parts[1]
        e == NoQmldirEntry
    IN  IF keyword = "module"
        THEN [e EXCEPT !.type = "module", !.moduleName = Part(parts, 2)]
        ELSE IF keyword = "singleton" /\ Len(parts) >= 4
        THEN [e EXCEPT !.type = "singleton", !.typeName = parts[2],
                       !.version = parts[3], !.filePath = parts[4]]
        ELSE IF Len(parts) >= 3
        THEN [e EXCEPT !.type = "component", !.typeName = parts[1],
                       !.version = parts[2], !.filePath = parts[3]]
        ELSE e

(* trimmed.startsWith('#') *)
IsComment(parts) == parts[1] = "#"

(* ModuleExtractor.parse / parseQmldir: blank lines and comments are skipped,
   every other line yields at most one entry. *)
RECURSIVE parse(_, _)
parse(g, lines) ==
    IF lines = <<>> THEN <<>>
    ELSE LET parts == Head(lines)
             rest == parse(g, Tail(lines))
         IN  IF parts = <<>> \/ IsComment(parts) THEN rest
             ELSE LET e == IF g = 1 THEN parseLine(parts) ELSE parseQmldirLine(parts)
                  IN  IF e.type = "none" THEN rest ELSE <<e>> \o rest

----------------------------------------------------------------------------
(* The module registry *)

(* components.set(typeName, ...) on a Map kept as a set of components *)
SetComponent(components, c) == {x \in components : x.name # c.name} \cup {c}

(* A component record that loses the singleton mark. *)
UserComponent_NotSingleton(m, e, singleton) ==
    [name |-> e.typeName, filePath |-> <<m, e.filePath>>, isBuiltin |-> FALSE,
     isSingleton |-> FALSE, version |-> e.version]

(* The record of a component a manifest declares; its file path is the
   manifest's directory joined with the declared path. *)
UserComponent(m, e, singleton) ==
    [name |-> e.typeName, filePath |-> <<m, e.filePath>>, isBuiltin |-> FALSE,
     isSingleton |-> singleton, version |-> e.version]

(* The entry loop of indexQmldirFile / indexQmldir: the declared module name
   and the components, a later declaration of a name replacing an earlier. *)
RECURSIVE CollectEntries(_, _, _, _)
CollectEntries(g, m, entries, acc) ==
    IF entries = <<>> THEN acc
    ELSE LET e == Head(entries)
             componentType == IF g = 1 THEN "module" ELSE "component"
             next ==
                 IF e.type = "module" /\ e.moduleName # "" /\ e.typeName = ""
                 THEN [acc EXCEPT !.moduleName = e.moduleName]
                 ELSE IF e.type = componentType /\ e.typeName # "" /\ e.filePath # ""
                 THEN [acc EXCEPT !.components = SetComponent(@, UserComponent(m, e, FALSE))]
                 ELSE IF e.type = "singleton" /\ e.typeName # "" /\ e.filePath # ""
                 THEN [acc EXCEPT !.components = SetComponent(@, UserComponent(m, e, TRUE))]
                 ELSE acc
         IN  CollectEntries(g, m, Tail(entries), next)

(* The module a manifest text declares: the declared name or, without one,
   the name inferred from the directory. *)
ModuleOfText(g, m, text) ==
    LET acc == CollectEntries(g, m, parse(g, text), [moduleName |-> "", components |-> {}])
        moduleName == IF acc.moduleName # "" THEN acc.moduleName
                      ELSE IF g = 1 THEN inferModuleName(ModuleDir(m))
                      ELSE basename(ModuleDir(m))
    IN  [name |-> moduleName, version |-> "1.0", qmldirPath |-> m, components |-> acc.components]

(* The catalog data/qt-builtins.json as the registry holds it. *)
BuiltinModules ==
    << [name |-> "QtQuick.Controls", version |-> "2.15", qmldirPath |-> NoPath,
        components |-> {[name |-> "Button", filePath |-> <<>>, isBuiltin |-> TRUE,
                         isSingleton |-> FALSE, version |-> "2.15"]}] >>

(* Position of the first module registered from a manifest path, 0 if none. *)
findByQmldirPath(reg, path) ==
    LET hits == {i \in 1 .. Len(reg) : reg[i].qmldirPath = path}
    IN  IF hits = {} THEN 0 ELSE CHOOSE i \in hits : \A j \in hits : i <= j

(* Map.set: a present key keeps its position, a new key goes last. *)
cacheSet(reg, module) ==
    IF \E i \in 1 .. Len(reg) : reg[i].name = module.name
    THEN [i \in 1 .. Len(reg) |-> IF reg[i].name = module.name THEN module ELSE reg[i]]
    ELSE Append(reg, module)

(* Map.delete *)
cacheRemove(reg, name) == SelectSeq(reg, LAMBDA x : x.name # name)

RECURSIVE cacheSetAll(_, _)
cacheSetAll(reg, modules) ==
    IF modules = <<>> THEN reg
    ELSE cacheSetAll(cacheSet(reg, Head(modules)), Tail(modules))

----------------------------------------------------------------------------
(* Module resolution *)

NoModule == [name |-> "", version |-> "", qmldirPath |-> NoPath, components |-> {}]

(* Names QtBuiltinsLoader counts as builtin although the catalog has no data
   for them. *)
ExtraBuiltinNames ==
    {"QtQuick.Dialogs", "QtQuick.Templates", "QtQml.Models", "Qt.labs.platform",
     "Qt.labs.settings"}

(* QtBuiltinsLoader.isBuiltin *)
isBuiltin(moduleName) ==
    \/ \E i \in 1 .. Len(BuiltinModules) : BuiltinModules[i].name = moduleName
    \/ moduleName \in ExtraBuiltinNames

(* QtBuiltinsLoader.getModule: the module built from the catalog data, under
   the requested version if one is given. *)
getModule(moduleName, version) ==
    LET hits == {i \in 1 .. Len(BuiltinModules) : BuiltinModules[i].name = moduleName}
        spec == BuiltinModules[CHOOSE i \in hits : TRUE]
        v == IF version # "" THEN version ELSE spec.version
    IN  IF hits = {} THEN [found |-> FALSE, module |-> NoModule]
        ELSE [found |-> TRUE,
              module |-> [name |-> moduleName, version |-> v, qmldirPath |-> NoPath,
                          components |-> {[c EXCEPT !.version = v] : c \in spec.components}]]

(* A match on the text of the name alone. *)
matchesModuleName1_EndsWith(cachedName, requestedName) ==
    \/ cachedName = requestedName
    \/ EndsWith(cachedName, requestedName)

(* ModuleResolver.matchesModuleName (generation 1) *)
matchesModuleName1(cachedName, requestedName) ==
    IF cachedName = requestedName THEN TRUE
    ELSE IF EndsWith(cachedName, "." \o requestedName) \/ EndsWith(cachedName, requestedName)
    THEN LET parts == SplitDots(cachedName)
             requestedParts == SplitDots(requestedName)
         IN  /\ Len(parts) >= Len(requestedParts)
             /\ JoinDots(LastParts(parts, Len(requestedParts))) = requestedName
    ELSE FALSE

(* ModuleIndexer.matchesModuleName (generation 2) *)
matchesModuleName2(cached, requested) ==
    IF cached = requested THEN TRUE
    ELSE LET parts == SplitDots(cached)
             reqParts == SplitDots(requested)
         IN  IF Len(parts) < Len(reqParts) THEN FALSE
             ELSE JoinDots(LastParts(parts, Len(reqParts))) = requested

(* Position of the module registered under a key, 0 if none (Map.has/get). *)
cacheHas(reg, key) ==
    LET hits == {i \in 1 .. Len(reg) : reg[i].name = key}
    IN  IF hits = {} THEN 0 ELSE CHOOSE i \in hits : TRUE

(* A scan over the names that passes over the module the last resolution
   returned when another name matches too. *)
FirstMatch_Rotating(g, reg, moduleName) ==
    LET hits == {i \in 1 .. Len(reg) :
                     IF g = 1 THEN matchesModuleName1(reg[i].name, moduleName)
                     ELSE matchesModuleName2(reg[i].name, moduleName)}
        fresh == {i \in hits : last.op # "resolveModule" \/ reg[i].name # last.module.name}
    IN  IF hits = {} THEN 0
        ELSE IF fresh # {} THEN CHOOSE i \in fresh : \A j \in fresh : i <= j
        ELSE CHOOSE i \in hits : \A j \in hits : i <= j

(* Position of the first registered name, in insertion order, that matches. *)
FirstMatch(g, reg, moduleName) ==
    LET hits == {i \in 1 .. Len(reg) :
                     IF g = 1 THEN matchesModuleName1(reg[i].name, moduleName)
                     ELSE matchesModuleName2(reg[i].name, moduleName)}
    IN  IF hits = {} THEN 0 ELSE CHOOSE i \in hits : \A j \in hits : i <= j

(* resolveModule: generation 1 tries the key name@version, the name, the
   first matching name of the cache and then the builtin loader; generation 2
   tries the name and the first matching name of the map. *)
resolveModule(g, reg, moduleName, version) ==
    LET cacheKey == IF version # "" THEN moduleName \o "@" \o version ELSE moduleName
        hit(i) == [found |-> TRUE, module |-> reg[i]]
    IN  IF g = 1 /\ cacheHas(reg, cacheKey) # 0 THEN hit(cacheHas(reg, cacheKey))
        ELSE IF cacheHas(reg, moduleName) # 0 THEN hit(cacheHas(reg, moduleName))
        ELSE IF FirstMatch(g, reg, moduleName) # 0 THEN hit(FirstMatch(g, reg, moduleName))
        ELSE IF g = 1 /\ isBuiltin(moduleName) THEN getModule(moduleName, version)
        ELSE [found |-> FALSE, module |-> NoModule]

NoComponent ==
    [name |-> "", filePath |-> <<>>, isBuiltin |-> FALSE, isSingleton |-> FALSE, version |-> ""]

(* resolveComponent: components.get(componentName) of the resolved module *)
resolveComponent(g, reg, moduleName, componentName, version) ==
    LET r == resolveModule(g, reg, moduleName, version)
        hits == {c \in r.module.components : c.name = componentName}
    IN  IF ~r.found \/ hits = {} THEN [found |-> FALSE, component |-> NoComponent]
        ELSE [found |-> TRUE, component |-> CHOOSE c \in hits : TRUE]

----------------------------------------------------------------------------
(* CacheStore, tables modules and components *)

NoModuleRow == [present |-> FALSE, version |-> "", qmldirPath |-> NoPath, mtime |-> 0]

ComponentRow(name, c) ==
    [module |-> name, name |-> c.name, filePath |-> c.filePath, isBuiltin |-> c.isBuiltin,
     isSingleton |-> c.isSingleton, version |-> c.version]

ComponentOfRow(r) ==
    [name |-> r.name, filePath |-> r.filePath, isBuiltin |-> r.isBuiltin,
     isSingleton |-> r.isSingleton, version |-> r.version]

(* The statements of one saveModule transaction that can report an error:
   the INSERT OR REPLACE of the module row, the DELETE of the module's
   component rows, and the INSERT of each component. *)
ModuleStatements(module) == {"module", "delete"} \cup {c.name : c \in module.components}

(* saveModule: the module row is replaced with the manifest's timestamp of the
   moment, the module's component rows are deleted and written anew. A module
   without a manifest is stamped with the clock.
     failed       the statements that report an error,
     finalizeErr  stmt.finalize reports an error.
   The component INSERTs run without a callback in both generations, the
   module INSERT and the DELETE have one only in generation 1, where it
   issues ROLLBACK and rejects; ROLLBACK is issued when finalize reports an
   error, COMMIT otherwise. *)
saveModule(g, mrows, crows, disk, module, failed, finalizeErr) ==
    LET lastModified == IF module.qmldirPath # NoPath
                        THEN getFileModTime(disk, module.qmldirPath)
                        ELSE MaxTime
        inserted == IF "module" \in failed THEN mrows
                    ELSE [mrows EXCEPT ![module.name] =
                             [present |-> TRUE, version |-> module.version,
                              qmldirPath |-> module.qmldirPath, mtime |-> lastModified]]
        deleted == IF "delete" \in failed THEN crows
                   ELSE {r \in crows : r.module # module.name}
        written == deleted \cup {ComponentRow(module.name, c) :
                                    c \in {x \in module.components : x.name \notin failed}}
    IN  IF finalizeErr \/ (g = 1 /\ failed \cap {"module", "delete"} # {})
        THEN [ok |-> FALSE, mrows |-> mrows, crows |-> crows]
        ELSE [ok |-> TRUE, mrows |-> inserted, crows |-> written]

(* removeModule: DELETE FROM modules WHERE name = ?. The connection never
   turns foreign-key enforcement on, so the component rows stay. *)
removeModule(mrows, name) == [mrows EXCEPT ![name] = NoModuleRow]

(* loadModule: a row with a manifest path is returned only when its timestamp
   equals a fresh stat of the manifest; otherwise it is removed. *)
loadModule(mrows, crows, disk, name) ==
    IF ~mrows[name].present
    THEN [hit |-> FALSE, mrows |-> mrows]
    ELSE IF mrows[name].qmldirPath # NoPath
            /\ getFileModTime(disk, mrows[name].qmldirPath) # mrows[name].mtime
    THEN [hit |-> FALSE, mrows |-> removeModule(mrows, name)]
    ELSE [hit |-> TRUE, mrows |-> mrows,
          module |-> [name |-> name, version |-> mrows[name].version,
                      qmldirPath |-> mrows[name].qmldirPath,
                      components |-> {ComponentOfRow(r) : r \in {x \in crows : x.module = name}}]]

(* loadAllModules: every module row goes through loadModule. *)
RECURSIVE LoadEach(_, _, _, _)
LoadEach(mrows, crows, disk, names) ==
    IF names = <<>> THEN [loaded |-> <<>>, mrows |-> mrows]
    ELSE LET one == loadModule(mrows, crows, disk, Head(names))
             rest == LoadEach(one.mrows, crows, disk, Tail(names))
         IN  IF one.hit THEN [rest EXCEPT !.loaded = <<one.module>> \o @] ELSE rest

loadAllModules(mrows, crows, disk) == LoadEach(mrows, crows, disk, NameOrder)

----------------------------------------------------------------------------
(* ModuleIndexer *)

(* An indexing that does not look for a module registered from the manifest. *)
indexQmldirFile_NoDedup(g, reg, mrows, crows, disk, pers, m) ==
    LET same == [indexed |-> FALSE, parsed |-> FALSE, reg |-> reg, mrows |-> mrows, crows |-> crows]
    IN  IF ~disk[m].exists THEN same
        ELSE LET module == ModuleOfText(g, m, disk[m].text)
                 saved == IF pers THEN saveModule(g, mrows, crows, disk, module, {}, FALSE)
                          ELSE [mrows |-> mrows, crows |-> crows]
             IN  IF (g = 2 \/ module.name # "") /\ module.components # {}
                 THEN [indexed |-> TRUE, parsed |-> TRUE, reg |-> cacheSet(reg, module),
                       mrows |-> saved.mrows, crows |-> saved.crows]
                 ELSE [same EXCEPT !.parsed = TRUE]

(* An indexing without the components.size > 0 guard. *)
indexQmldirFile_RegisterEmpty(g, reg, mrows, crows, disk, pers, m) ==
    LET same == [indexed |-> FALSE, parsed |-> FALSE, reg |-> reg, mrows |-> mrows, crows |-> crows]
    IN  IF findByQmldirPath(reg, m) # 0 THEN same
        ELSE IF ~disk[m].exists THEN same
        ELSE LET module == ModuleOfText(g, m, disk[m].text)
                 saved == IF pers THEN saveModule(g, mrows, crows, disk, module, {}, FALSE)
                          ELSE [mrows |-> mrows, crows |-> crows]
             IN  [indexed |-> TRUE, parsed |-> TRUE, reg |-> cacheSet(reg, module),
                  mrows |-> saved.mrows, crows |-> saved.crows]

(* indexQmldirFile / indexQmldir: nothing is done for a manifest that already
   has a registered module; otherwise the manifest is read and parsed and,
   if it declares at least one component, registered and saved.
     indexed  the call's return value,
     parsed   the manifest was read and parsed. *)
indexQmldirFile(g, reg, mrows, crows, disk, pers, m) ==
    LET same == [indexed |-> FALSE, parsed |-> FALSE, reg |-> reg, mrows |-> mrows, crows |-> crows]
    IN  IF findByQmldirPath(reg, m) # 0 THEN same
        ELSE IF ~disk[m].exists THEN same
        ELSE LET module == ModuleOfText(g, m, disk[m].text)
                 saved == IF pers THEN saveModule(g, mrows, crows, disk, module, {}, FALSE)
                          ELSE [mrows |-> mrows, crows |-> crows]
             IN  IF (g = 2 \/ module.name # "") /\ module.components # {}
                 THEN [indexed |-> TRUE, parsed |-> TRUE, reg |-> cacheSet(reg, module),
                       mrows |-> saved.mrows, crows |-> saved.crows]
                 ELSE [same EXCEPT !.parsed = TRUE]

(* initialize: the valid modules of the store, then the builtin catalog. *)
initializeModules(mrows, crows, disk, pers) ==
    LET ld == IF pers THEN loadAllModules(mrows, crows, disk)
              ELSE [loaded |-> <<>>, mrows |-> mrows]
    IN  [reg |-> cacheSetAll(cacheSetAll(<<>>, ld.loaded), BuiltinModules), mrows |-> ld.mrows]

----------------------------------------------------------------------------
(* State of the source-file side *)

(* scan.done: an indexWorkspace call has returned since the start. *)
Idle(done) == [phase |-> "idle", todo |-> <<>>, done |-> done]

(* What the last operation was (op, file), what it returned (ok, entry), the
   uris its cascade deleted in order (removed), and what held just before it:
     cycle   the entries on a dependedBy cycle through the invalidated entry,
     again   the operation before it was indexFile on the same file,
     hadRow  the store held a row for the file,
     afterFailure  the operation before it was a watcher handler that failed,
     produced    the entries the operation handed to the store, by file,
     saveFailed  that save was rejected. *)
Result(op, f, ok, entry, removed) ==
    [op |-> op, file |-> f, ok |-> ok, entry |-> entry, removed |-> removed,
     cycle |-> {}, again |-> FALSE, hadRow |-> FALSE, afterFailure |-> FALSE,
     produced |-> {}, saveFailed |-> FALSE]

NoResult == Result("none", "A.qml", FALSE, NoEntry, <<>>)

Quiescent == scan.phase = "idle"

(* The live entries reached from the entries of S along dependedBy. *)
RECURSIVE Dependents(_, _)
Dependents(index, S) ==
    LET step == {d \in Files : index[d].live /\ \E x \in S : index[x].live
                                   /\ d \in SeqToSet(index[x].dependedBy)}
    IN  IF step \subseteq S THEN S ELSE Dependents(index, S \cup step)

(* The entries on a cycle of dependedBy edges through f. *)
CycleThrough(index, f) ==
    IF ~index[f].live THEN {}
    ELSE LET succ(x) == {d \in Files : index[d].live /\ d \in SeqToSet(index[x].dependedBy)}
             after(x) == Dependents(index, succ(x))
         IN  {m \in after(f) : f \in after(m)}

Count(x, s) == Cardinality({i \in 1 .. Len(s) : s[i] = x})


(* No manifest on disk, the registry as initialize() leaves it over an empty
   store. *)
ModuleSideIdle ==
    /\ manifests = [m \in Manifests |-> NoManifest]
    /\ registry = BuiltinModules
    /\ moduleRows = [n \in ModuleNames |-> NoModuleRow]
    /\ componentRows = {}
    /\ mscan = <<>>

OnDisk == [exists : {TRUE}, text : Texts, mtime : {1}]

InitFiles ==
    /\ FacadeIdle
    /\ gen \in {1, 2}
    /\ persistent \in (IF gen = 1 THEN BOOLEAN ELSE {TRUE})
    /\ fs \in {d \in [Files -> {NoFile} \cup {x \in OnDisk : x.text \in SmallTexts}] :
                   \A f \in Files \ SmallFiles : d[f] = NoFile}
    /\ fileIndex = [f \in Files |-> NoEntry]
    /\ qmlRows = [f \in Files |-> NoRow]
    /\ scan = Idle(FALSE)
    /\ events = {}
    /\ tasks = {}
    /\ folder = AtRoot
    /\ last = NoResult
    /\ edits = 0
    /\ ModuleSideIdle

----------------------------------------------------------------------------
(* The file system and its watcher *)

(* A file is written (created or overwritten); the watcher raises the event.
   The event of one edit is handled before the next edit is made. *)
FsWrite(f, text, mtime) ==
    /\ edits < MaxEdits
    /\ events = {}
    /\ fs' = [fs EXCEPT ![f] = [exists |-> TRUE, text |-> text, mtime |-> mtime]]
    /\ events' = events \cup {<<IF fs[f].exists THEN "change" ELSE "create", f>>}
    /\ edits' = edits + 1
    /\ last' = NoResult
    /\ UNCHANGED <<gen, persistent, folder, facadeSide, tasks, fileIndex, qmlRows, scan, moduleSide>>

FsDelete(f) ==
    /\ edits < MaxEdits
    /\ events = {}
    /\ fs[f].exists
    /\ fs' = [fs EXCEPT ![f] = NoFile]
    /\ events' = events \cup {<<"delete", f>>}
    /\ edits' = edits + 1
    /\ last' = NoResult
    /\ UNCHANGED <<gen, persistent, folder, facadeSide, tasks, fileIndex, qmlRows, scan, moduleSide>>

----------------------------------------------------------------------------
(* indexWorkspace *)

(* The files findFiles enumerates. *)
FoundFiles ==
    SelectFiles(FileOrder, {f \in Files : /\ fs[f].exists
                                          /\ ~(folder[f] # "" /\ InExcludedFolder(RelativePath(f)))})

Overlay(index, loaded) == [f \in Files |-> IF loaded[f].live THEN loaded[f] ELSE index[f]]

(* Start of indexWorkspace: the valid rows of the store are entered in the
   index, the files are enumerated. Generation 1 returns at once when there
   is no file. *)
ScanStart ==
    /\ scan.phase = "idle"
    /\ LET ld == IF persistent THEN loadAllQmlFiles(qmlRows, fs)
                 ELSE [loaded |-> [f \in Files |-> NoEntry], rows |-> qmlRows]
       IN  /\ fileIndex' = Overlay(fileIndex, ld.loaded)
           /\ qmlRows' = ld.rows
    /\ scan' = IF FoundFiles = <<>> THEN Idle(TRUE)
               ELSE [phase |-> "batches", todo |-> FoundFiles, done |-> scan.done]
    /\ last' = NoResult
    /\ UNCHANGED <<gen, persistent, folder, facadeSide, tasks, fs, events, edits, moduleSide>>

Min(a, b) == IF a < b THEN a ELSE b

(* The batch a ScanBatch step takes from the enumeration, and what it leaves. *)
ThisBatch == SubSeq(scan.todo, 1, Min(BATCH_SIZE, Len(scan.todo)))

RestOfScan == SubSeq(scan.todo, Len(ThisBatch) + 1, Len(scan.todo))

(* A batch that is abandoned at its first member that fails. *)
RECURSIVE Batch1_StopAtFailure(_, _, _, _)
Batch1_StopAtFailure(index0, index, rows, batch) ==
    IF batch = <<>> THEN [index |-> index, rows |-> rows, writes |-> <<>>]
    ELSE LET f == Head(batch)
         IN  IF index0[f].live
             THEN Batch1_StopAtFailure(index0, index, rows, Tail(batch))
             ELSE LET r == indexFileForBatch(index, rows, fs, persistent, f)
                      rest == Batch1_StopAtFailure(index0, r.index, r.rows, Tail(batch))
                  IN  IF r.ok
                      THEN [rest EXCEPT !.writes = <<[file |-> f, entry |-> r.entry]>> \o @]
                      ELSE [index |-> index, rows |-> r.rows, writes |-> <<>>]

(* The members of one generation 1 batch: a file that already has an entry is
   taken from the index, the others go through indexFileForBatch; the entries
   so produced are the batch's cache writes. *)
RECURSIVE Batch1(_, _, _, _)
Batch1(index0, index, rows, batch) ==
    IF batch = <<>> THEN [index |-> index, rows |-> rows, writes |-> <<>>]
    ELSE LET f == Head(batch)
         IN  IF index0[f].live
             THEN Batch1(index0, index, rows, Tail(batch))
             ELSE LET r == indexFileForBatch(index, rows, fs, persistent, f)
                      rest == Batch1(index0, r.index, r.rows, Tail(batch))
                  IN  IF r.ok
                      THEN [rest EXCEPT !.writes = <<[file |-> f, entry |-> r.entry]>> \o @]
                      ELSE rest

(* The members of one generation 2 batch: indexFile(uri, false) for each; a
   result is queued for the store only if the index does not hold its uri. *)
RECURSIVE Batch2(_, _, _)
Batch2(index, rows, batch) ==
    IF batch = <<>> THEN [index |-> index, rows |-> rows, writes |-> <<>>]
    ELSE LET f == Head(batch)
             r == indexFile2(index, rows, fs, f, FALSE, NoFault)
         IN  Batch2(r.index, r.rows, Tail(batch))

Queued2(index, batch) ==
    LET done == Batch2(index, qmlRows, batch).index
        RECURSIVE Pick(_)
        Pick(b) == IF b = <<>> THEN <<>>
                   ELSE IF indexFile2(index, qmlRows, fs, Head(b), FALSE, NoFault).ok /\ ~done[Head(b)].live
                   THEN <<[file |-> Head(b), entry |-> done[Head(b)]]>> \o Pick(Tail(b))
                   ELSE Pick(Tail(b))
    IN  Pick(batch)

(* One batch of indexWorkspace: all members settle, then the batch's new
   entries are saved in one call. After the last batch generation 1 builds
   the dependency graph. A rejected save is caught and logged by generation
   1; generation 2 awaits the save without a catch, so that indexWorkspace is
   rejected there. *)
ScanBatchWith(fault) ==
    /\ scan.phase = "batches"
    /\ LET n == Min(BATCH_SIZE, Len(scan.todo))
           batch == SubSeq(scan.todo, 1, n)
           rest == SubSeq(scan.todo, n + 1, Len(scan.todo))
           r == IF gen = 1 THEN Batch1(fileIndex, fileIndex, qmlRows, batch)
                ELSE [Batch2(fileIndex, qmlRows, batch) EXCEPT !.writes = Queued2(fileIndex, batch)]
           saved == IF persistent
                    THEN saveQmlFilesBatch(r.rows, r.writes, fault.failed, fault.finalizeErr)
                    ELSE [ok |-> TRUE, rows |-> r.rows]
           faulty == persistent /\ Faulty(r.writes, fault)
           rejected == gen = 2 /\ ~saved.ok
       IN  /\ fileIndex' = IF gen = 1 /\ rest = <<>> THEN buildDependencyGraph(r.index)
                           ELSE r.index
           /\ qmlRows' = saved.rows
           /\ scan' = IF rejected THEN Idle(scan.done)
                      ELSE IF rest = <<>> THEN Idle(TRUE)
                      ELSE [phase |-> "batches", todo |-> rest, done |-> scan.done]
           /\ last' = IF ~faulty THEN NoResult
                      ELSE [Result("scanBatch", r.writes[1].file, FALSE, NoEntry, <<>>)
                             EXCEPT !.produced = SeqToSet(r.writes),
                                    !.saveFailed = TRUE]
    /\ UNCHANGED <<gen, persistent, folder, facadeSide, tasks, fs, events, edits, moduleSide>>

ScanBatch == ScanBatchWith(NoFault)

----------------------------------------------------------------------------
(* Requests *)

(* indexFile(uri); fault: what goes wrong in the save of the entry. *)
IndexFileWith(f, fault) ==
    /\ LET r == IF gen = 1 THEN indexFile1(fileIndex, qmlRows, fs, persistent, f, fault)
                ELSE indexFile2(fileIndex, qmlRows, fs, f, TRUE, fault)
       IN  /\ fileIndex' = r.index
           /\ qmlRows' = r.rows
           /\ last' = [Result("indexFile", f, r.ok, r.entry, <<>>)
                        EXCEPT !.again = (last.op = "indexFile" /\ last.file = f),
                               !.produced = IF r.saveFailed THEN {[file |-> f, entry |-> r.handed]} ELSE {},
                               !.saveFailed = r.saveFailed]
    /\ UNCHANGED <<gen, persistent, folder, facadeSide, tasks, fs, scan, events, edits, moduleSide>>

IndexFile(f) == IndexFileWith(f, NoFault)

(* getFileIndex(uri) of generation 1 indexes on a miss; getFile(uri) of
   generation 2 is a lookup. *)
GetFileIndex(f) ==
    /\ LET r == IF gen = 1 /\ ~fileIndex[f].live
                THEN indexFile1(fileIndex, qmlRows, fs, persistent, f, NoFault)
                ELSE [ok |-> fileIndex[f].live, entry |-> fileIndex[f],
                      index |-> fileIndex, rows |-> qmlRows]
       IN  /\ fileIndex' = r.index
           /\ qmlRows' = r.rows
           /\ last' = Result("getFileIndex", f, r.ok, NoEntry, <<>>)
    /\ UNCHANGED <<gen, persistent, folder, facadeSide, tasks, fs, scan, events, edits, moduleSide>>

----------------------------------------------------------------------------
(* Watcher handlers *)

HandlerOps == {"change", "create", "delete"}

(* The handler that ran last rejected or logged a failure. *)
LastHandlerFailed == last.op \in HandlerOps /\ ~last.ok

(* A watcher whose subscription ends with the first handler that fails. *)
Dispatched_Unsubscribe(pending, e, ok) == IF ok THEN pending \ {e} ELSE {}

(* The watcher callback: the handler is called for the event, and the promise
   it returns gets a catch that logs; the events raised besides it stay
   pending whether the handler succeeded (ok) or not. *)
Dispatched(pending, e, ok) == pending \ {e}

(* handleFileChanged / watcher.onDidChange; fault: what goes wrong in the
   save of the entry; both generations catch and log a rejected save. *)
HandleFileChangedWith(f, fault) ==
    /\ <<"change", f>> \in events
    /\ IF gen = 1
       THEN LET inv == invalidateFile(fileIndex, <<>>, f)
                r == indexFileForBatch(inv.index, qmlRows, fs, persistent, f)
                batch == IF r.ok /\ persistent THEN <<[file |-> f, entry |-> r.entry]>>
                         ELSE <<>>
                saved == saveQmlFilesBatch(r.rows, batch, fault.failed, fault.finalizeErr)
            IN  /\ events' = Dispatched(events, <<"change", f>>, r.ok)
                /\ fileIndex' = r.index
                /\ qmlRows' = saved.rows
                /\ last' = [Result("change", f, r.ok, NoEntry, inv.removed)
                             EXCEPT !.cycle = CycleThrough(fileIndex, f),
                                    !.afterFailure = LastHandlerFailed,
                                    !.produced = IF Faulty(batch, fault) THEN SeqToSet(batch)
                                                 ELSE {},
                                    !.saveFailed = Faulty(batch, fault)]
       ELSE LET r == indexFile2(fileIndex, qmlRows, fs, f, TRUE, fault)
            IN  /\ events' = Dispatched(events, <<"change", f>>, r.ok)
                /\ fileIndex' = r.index
                /\ qmlRows' = r.rows
                /\ last' = [Result("change", f, r.ok, NoEntry, <<>>)
                             EXCEPT !.afterFailure = LastHandlerFailed,
                                    !.produced = IF r.saveFailed THEN {[file |-> f, entry |-> r.handed]} ELSE {},
                                    !.saveFailed = r.saveFailed]
    /\ UNCHANGED <<gen, persistent, folder, facadeSide, tasks, fs, scan, edits, moduleSide>>

HandleFileChanged(f) == HandleFileChangedWith(f, NoFault)

(* handleFileCreated / watcher.onDidCreate; fault: what goes wrong in the
   save of the entry. *)
HandleFileCreatedWith(f, fault) ==
    /\ <<"create", f>> \in events
    /\ LET r == IF gen = 1
                THEN indexFile1(fileIndex, qmlRows, fs, persistent, f, fault)
                ELSE indexFile2(fileIndex, qmlRows, fs, f, TRUE, fault)
       IN  /\ events' = Dispatched(events, <<"create", f>>, r.ok)
           /\ fileIndex' = r.index
           /\ qmlRows' = r.rows
           /\ last' = [Result("create", f, r.ok, NoEntry, <<>>)
                        EXCEPT !.afterFailure = LastHandlerFailed,
                               !.produced = IF r.saveFailed THEN {[file |-> f, entry |-> r.handed]} ELSE {},
                               !.saveFailed = r.saveFailed]
    /\ UNCHANGED <<gen, persistent, folder, facadeSide, tasks, fs, scan, edits, moduleSide>>

HandleFileCreated(f) == HandleFileCreatedWith(f, NoFault)

(* handleFileDeleted / watcher.onDidDelete *)
HandleFileDeleted(f) ==
    /\ <<"delete", f>> \in events
    /\ events' = Dispatched(events, <<"delete", f>>, TRUE)
    /\ LET inv == IF gen = 1 THEN invalidateFile(fileIndex, <<>>, f)
                  ELSE [index |-> [fileIndex EXCEPT ![f] = NoEntry],
                        removed |-> IF fileIndex[f].live THEN <<f>> ELSE <<>>]
       IN  /\ fileIndex' = inv.index
           /\ last' = [Result("delete", f, TRUE, NoEntry, inv.removed)
                        EXCEPT !.cycle = CycleThrough(fileIndex, f),
                               !.hadRow = qmlRows[f].present,
                               !.afterFailure = LastHandlerFailed]
    /\ qmlRows' = IF persistent THEN removeQmlFile(qmlRows, f) ELSE qmlRows
    /\ UNCHANGED <<gen, persistent, folder, facadeSide, tasks, fs, scan, edits, moduleSide>>

(* The extension is shut down and started again: dispose() clears the index,
   the store file stays. *)
Restart ==
    /\ fileIndex' = [f \in Files |-> NoEntry]
    /\ scan' = Idle(FALSE)
    /\ events' = {}
    /\ last' = NoResult
    /\ UNCHANGED <<gen, persistent, folder, facadeSide, tasks, fs, qmlRows, edits, moduleSide>>

NextFiles ==
    \/ \E f \in SmallFiles, text \in SmallTexts, mtime \in TimeStamps : FsWrite(f, text, mtime)
    \/ \E f \in SmallFiles : FsDelete(f)
    \/ ScanStart
    \/ ScanBatch
    \/ \E f \in SmallFiles : IndexFile(f)
    \/ \E f \in SmallFiles : GetFileIndex(f)
    \/ \E f \in SmallFiles : HandleFileChanged(f)
    \/ \E f \in SmallFiles : HandleFileCreated(f)
    \/ \E f \in SmallFiles : HandleFileDeleted(f)
    \/ Restart

(* The source-file indexer of either generation over a two-file workspace. *)
SpecFiles == InitFiles /\ [][NextFiles]_vars

(* The generation 1 indexer over the three-file workspace with texts that
   parse: the workspace scan and the watcher handlers that maintain the
   dependency graph. *)
InitGraph ==
    /\ FacadeIdle
    /\ gen = 1
    /\ persistent = TRUE
    /\ fs \in [Files -> {NoFile} \cup {d \in OnDisk : ~d.text.malformed}]
    /\ fileIndex = [f \in Files |-> NoEntry]
    /\ qmlRows = [f \in Files |-> NoRow]
    /\ scan = Idle(FALSE)
    /\ events = {}
    /\ tasks = {}
    /\ folder = AtRoot
    /\ last = NoResult
    /\ edits = 0
    /\ ModuleSideIdle

NextGraph ==
    \/ \E f \in Files, text \in {t \in Texts : ~t.malformed}, mtime \in TimeStamps :
           FsWrite(f, text, mtime)
    \/ \E f \in Files : FsDelete(f)
    \/ ScanStart
    \/ ScanBatch
    \/ \E f \in Files : HandleFileChanged(f)
    \/ \E f \in Files : HandleFileCreated(f)
    \/ \E f \in Files : HandleFileDeleted(f)

SpecGraph == InitGraph /\ [][NextGraph]_vars

(* The watcher on its own: edits follow one another faster than the handlers
   run, so that several events are pending at once. *)
(* The texts the watched files are given: one that parses, one that does not. *)
WatchTexts == {t \in Texts : t.imports = <<>>}

InitWatch ==
    /\ FacadeIdle
    /\ gen \in {1, 2}
    /\ persistent \in (IF gen = 1 THEN BOOLEAN ELSE {TRUE})
    /\ fs = [f \in Files |-> NoFile]
    /\ fileIndex = [f \in Files |-> NoEntry]
    /\ qmlRows = [f \in Files |-> NoRow]
    /\ scan = Idle(FALSE)
    /\ events = {}
    /\ tasks = {}
    /\ folder = AtRoot
    /\ last = NoResult
    /\ edits = 0
    /\ ModuleSideIdle

WatchWrite(f, text, mtime) ==
    /\ Cardinality(events) < MaxPending
    /\ fs' = [fs EXCEPT ![f] = [exists |-> TRUE, text |-> text, mtime |-> mtime]]
    /\ events' = events \cup {<<IF fs[f].exists THEN "change" ELSE "create", f>>}
    /\ UNCHANGED <<gen, persistent, folder, facadeSide, tasks, fileIndex, qmlRows, scan, last, edits, moduleSide>>

WatchDelete(f) ==
    /\ Cardinality(events) < MaxPending
    /\ fs[f].exists
    /\ fs' = [fs EXCEPT ![f] = NoFile]
    /\ events' = events \cup {<<"delete", f>>}
    /\ UNCHANGED <<gen, persistent, folder, facadeSide, tasks, fileIndex, qmlRows, scan, last, edits, moduleSide>>

NextWatch ==
    \/ \E f \in SmallFiles, text \in WatchTexts : WatchWrite(f, text, 1)
    \/ \E f \in SmallFiles : WatchDelete(f)
    \/ \E f \in SmallFiles : HandleFileChanged(f)
    \/ \E f \in SmallFiles : HandleFileCreated(f)
    \/ \E f \in SmallFiles : HandleFileDeleted(f)

SpecWatch == InitWatch /\ [][NextWatch]_vars

----------------------------------------------------------------------------
(* State of the module side *)

(* What the last module operation was (op, manifest) and returned (indexed),
   and what held around it:
     parsed      the manifest was read and parsed,
     registered  the name of the module registered from the manifest just
                 before the operation, "" if there was none,
     hadRow      the store held a row for that module. *)
ModuleResult(op, m, indexed, parsed) ==
    [op |-> op, manifest |-> m, indexed |-> indexed, parsed |-> parsed,
     registered |-> IF findByQmldirPath(registry, m) = 0 THEN ""
                    ELSE registry[findByQmldirPath(registry, m)].name,
     hadRow |-> /\ findByQmldirPath(registry, m) # 0
                /\ moduleRows[registry[findByQmldirPath(registry, m)].name].present]

ManifestsOnDisk == [exists : {TRUE}, text : ManifestTexts, mtime : {1}]

FileSideIdle ==
    /\ fs = [f \in Files |-> NoFile]
    /\ fileIndex = [f \in Files |-> NoEntry]
    /\ qmlRows = [f \in Files |-> NoRow]
    /\ scan = Idle(FALSE)

InitModules ==
    /\ FacadeIdle
    /\ gen \in {1, 2}
    /\ persistent = TRUE
    /\ manifests \in [Manifests -> {NoManifest} \cup ManifestsOnDisk]
    /\ registry = BuiltinModules
    /\ moduleRows = [n \in ModuleNames |-> NoModuleRow]
    /\ componentRows = {}
    /\ mscan = <<>>
    /\ events = {}
    /\ tasks = {}
    /\ folder = AtRoot
    /\ last = NoResult
    /\ edits = 0
    /\ FileSideIdle

(* A manifest is written (created or overwritten); the watcher raises the event. *)
ManifestWrite(m, text, mtime) ==
    /\ edits < MaxEdits
    /\ events = {}
    /\ manifests' = [manifests EXCEPT ![m] = [exists |-> TRUE, text |-> text, mtime |-> mtime]]
    /\ events' = events \cup {<<IF manifests[m].exists THEN "change" ELSE "create", m>>}
    /\ edits' = edits + 1
    /\ last' = NoResult
    /\ UNCHANGED <<gen, persistent, folder, facadeSide, tasks, registry, moduleRows, componentRows, mscan, fileSide>>

ManifestDelete(m) ==
    /\ edits < MaxEdits
    /\ events = {}
    /\ manifests[m].exists
    /\ manifests' = [manifests EXCEPT ![m] = NoManifest]
    /\ events' = events \cup {<<"delete", m>>}
    /\ edits' = edits + 1
    /\ last' = NoResult
    /\ UNCHANGED <<gen, persistent, folder, facadeSide, tasks, registry, moduleRows, componentRows, mscan, fileSide>>

(* The manifests findFiles('**/qmldir') enumerates. *)
FoundManifests == SelectFiles(ManifestOrder, {m \in Manifests : manifests[m].exists})

(* indexWorkspaceModules / indexWorkspace: the manifests are enumerated ... *)
ModuleScanStart ==
    /\ mscan = <<>>
    /\ mscan' = FoundManifests
    /\ last' = NoResult
    /\ UNCHANGED <<gen, persistent, folder, facadeSide, tasks, events, edits, manifests, registry, moduleRows,
                   componentRows, fileSide>>

(* ... and indexed one after the other. *)
ModuleScanStep ==
    /\ mscan # <<>>
    /\ LET m == Head(mscan)
           r == indexQmldirFile(gen, registry, moduleRows, componentRows, manifests, persistent, m)
       IN  /\ registry' = r.reg
           /\ moduleRows' = r.mrows
           /\ componentRows' = r.crows
           /\ last' = ModuleResult("indexQmldir", m, r.indexed, r.parsed)
    /\ mscan' = Tail(mscan)
    /\ UNCHANGED <<gen, persistent, folder, facadeSide, tasks, events, edits, manifests, fileSide>>

(* onQmldirChanged / watcher.onDidChange: generation 1 calls indexQmldirFile;
   generation 2 first deletes the module registered from the manifest. *)
HandleQmldirChanged(m) ==
    /\ <<"change", m>> \in events
    /\ events' = events \ {<<"change", m>>}
    /\ LET existing == findByQmldirPath(registry, m)
           reg == IF gen = 2 /\ existing # 0 THEN cacheRemove(registry, registry[existing].name)
                  ELSE registry
           r == indexQmldirFile(gen, reg, moduleRows, componentRows, manifests, persistent, m)
       IN  /\ registry' = r.reg
           /\ moduleRows' = r.mrows
           /\ componentRows' = r.crows
           /\ last' = ModuleResult("qmldirChanged", m, r.indexed, r.parsed)
    /\ UNCHANGED <<gen, persistent, folder, facadeSide, tasks, edits, manifests, mscan, fileSide>>

(* onQmldirCreated / watcher.onDidCreate *)
HandleQmldirCreated(m) ==
    /\ <<"create", m>> \in events
    /\ events' = events \ {<<"create", m>>}
    /\ LET r == indexQmldirFile(gen, registry, moduleRows, componentRows, manifests, persistent, m)
       IN  /\ registry' = r.reg
           /\ moduleRows' = r.mrows
           /\ componentRows' = r.crows
           /\ last' = ModuleResult("qmldirCreated", m, r.indexed, r.parsed)
    /\ UNCHANGED <<gen, persistent, folder, facadeSide, tasks, edits, manifests, mscan, fileSide>>

(* handleQmldirDeleted / watcher.onDidDelete: the module registered from the
   manifest is deleted from the registry. *)
HandleQmldirDeleted(m) ==
    /\ <<"delete", m>> \in events
    /\ events' = events \ {<<"delete", m>>}
    /\ LET existing == findByQmldirPath(registry, m)
       IN  registry' = IF existing # 0 THEN cacheRemove(registry, registry[existing].name)
                       ELSE registry
    /\ last' = ModuleResult("qmldirDeleted", m, FALSE, FALSE)
    /\ UNCHANGED <<gen, persistent, folder, facadeSide, tasks, edits, manifests, moduleRows, componentRows, mscan, fileSide>>

(* The extension is shut down and started again: a new ModuleIndexer is
   initialized over the store file. *)
ModuleRestart ==
    /\ LET r == initializeModules(moduleRows, componentRows, manifests, persistent)
       IN  /\ registry' = r.reg
           /\ moduleRows' = r.mrows
    /\ mscan' = <<>>
    /\ events' = {}
    /\ last' = NoResult
    /\ UNCHANGED <<gen, persistent, folder, facadeSide, tasks, edits, manifests, componentRows, fileSide>>

NextModules ==
    \/ \E m \in Manifests, text \in ManifestTexts, mtime \in TimeStamps : ManifestWrite(m, text, mtime)
    \/ \E m \in Manifests : ManifestDelete(m)
    \/ ModuleScanStart
    \/ ModuleScanStep
    \/ \E m \in Manifests : HandleQmldirChanged(m)
    \/ \E m \in Manifests : HandleQmldirCreated(m)
    \/ \E m \in Manifests : HandleQmldirDeleted(m)
    \/ ModuleRestart

(* The module indexer of either generation, its store open, over a workspace
   of two manifests. *)
SpecModules == InitModules /\ [][NextModules]_vars

(* Module resolution over a workspace whose manifests declare names that
   share suffixes. *)
ResolveTexts(m) ==
    IF m = "src/Foo/Bar/qmldir" THEN {TextAWidgets, TextMyControls, TextFooBarBazJoined}
    ELSE {TextUnnamed, TextBWidgets, TextQtControls, TextFooBarBaz}

(* The names and versions import statements ask for. *)
Requests ==
    {<<"Widgets", "">>, <<"Controls", "">>, <<"Baz", "">>, <<"QtQuick.Controls", "6.0">>}

(* What resolveModule was asked (request, version) and returned (found,
   module); again: the operation before it was the same request. *)
ResolveResult(moduleName, version, r) ==
    [op |-> "resolveModule", request |-> moduleName, version |-> version,
     found |-> r.found, module |-> r.module,
     again |-> /\ last.op = "resolveModule"
               /\ last.request = moduleName
               /\ last.version = version]

InitResolve ==
    /\ FacadeIdle
    /\ gen \in {1, 2}
    /\ persistent = TRUE
    /\ manifests \in {d \in [Manifests -> {NoManifest} \cup
                                   [exists : {TRUE}, text : UNION {ResolveTexts(m) : m \in Manifests},
                                    mtime : {1}]] :
                          \A m \in Manifests : d[m].exists => d[m].text \in ResolveTexts(m)}
    /\ registry = BuiltinModules
    /\ moduleRows = [n \in ModuleNames |-> NoModuleRow]
    /\ componentRows = {}
    /\ mscan = <<>>
    /\ events = {}
    /\ tasks = {}
    /\ folder = AtRoot
    /\ last = NoResult
    /\ edits = 0
    /\ FileSideIdle

(* resolveModule(moduleName, version) *)
ResolveModule(moduleName, version) ==
    /\ mscan = <<>>
    /\ events = {}
    /\ last' = ResolveResult(moduleName, version, resolveModule(gen, registry, moduleName, version))
    /\ UNCHANGED <<gen, persistent, folder, facadeSide, tasks, events, edits, fileSide, moduleSide>>

NextResolve ==
    \/ \E m \in Manifests : \E text \in ResolveTexts(m) : ManifestWrite(m, text, 1)
    \/ \E m \in Manifests : ManifestDelete(m)
    \/ ModuleScanStart
    \/ ModuleScanStep
    \/ \E m \in Manifests : HandleQmldirChanged(m)
    \/ \E m \in Manifests : HandleQmldirCreated(m)
    \/ \E m \in Manifests : HandleQmldirDeleted(m)
    \/ ModuleRestart
    \/ \E request \in Requests : ResolveModule(request[1], request[2])

SpecResolve == InitResolve /\ [][NextResolve]_vars

----------------------------------------------------------------------------
(* The store on its own *)

(* What the last store operation was, the tables just before it (before,
   beforeModules), what it was given (batch: the paths in statement order,
   failed: the statement positions that reported an error, finalizeErr;
   module: the module handed to saveModule, statements: its statements that
   reported an error) and what it returned (ok, files, modules). *)
StoreResult(op) ==
    [op |-> op, before |-> qmlRows, beforeModules |-> moduleRows,
     beforeComponents |-> componentRows,
     batch |-> <<>>, failed |-> {}, finalizeErr |-> FALSE, ok |-> TRUE,
     files |-> [f \in Files |-> NoEntry], modules |-> <<>>,
     module |-> NoModule, statements |-> {}]

(* The batch the indexer hands over for the files of S: one entry per file,
   built from the file as it is on disk. *)
BatchOf(S) ==
    LET order == SelectFiles(FileOrder, S)
    IN  [i \in 1 .. Len(order) |->
            [file |-> order[i],
             entry |-> ParsedEntry(gen, fs[order[i]].text, fs[order[i]].mtime)]]

(* The manifest of the store's workspace. *)
StoreManifests == {"Widgets/qmldir"}

InitStore ==
    /\ FacadeIdle
    /\ gen \in {1, 2}
    /\ persistent = TRUE
    /\ fs \in {d \in [Files -> {NoFile} \cup [exists : {TRUE}, text : {EmptyText}, mtime : TimeStamps]] :
                   \A f \in Files \ SmallFiles : d[f] = NoFile}
    /\ manifests \in {d \in [Manifests -> {NoManifest}
                               \cup [exists : {TRUE}, text : {TextButton}, mtime : TimeStamps]] :
                          \A m \in Manifests \ StoreManifests : d[m] = NoManifest}
    /\ fileIndex = [f \in Files |-> NoEntry]
    /\ qmlRows = [f \in Files |-> NoRow]
    /\ scan = Idle(FALSE)
    /\ registry = BuiltinModules
    /\ moduleRows = [n \in ModuleNames |-> NoModuleRow]
    /\ componentRows = {}
    /\ mscan = <<>>
    /\ events = {}
    /\ tasks = {}
    /\ folder = AtRoot
    /\ last = NoResult
    /\ edits = 0

(* The file system changes under the store. *)
DiskWrite(f, text, mtime) ==
    /\ edits < MaxEdits
    /\ fs' = [fs EXCEPT ![f] = [exists |-> TRUE, text |-> text, mtime |-> mtime]]
    /\ edits' = edits + 1
    /\ last' = NoResult
    /\ UNCHANGED <<gen, persistent, folder, facadeSide, tasks, events, fileIndex, qmlRows, scan, moduleSide>>

DiskDelete(f) ==
    /\ edits < MaxEdits
    /\ fs[f].exists
    /\ fs' = [fs EXCEPT ![f] = NoFile]
    /\ edits' = edits + 1
    /\ last' = NoResult
    /\ UNCHANGED <<gen, persistent, folder, facadeSide, tasks, events, fileIndex, qmlRows, scan, moduleSide>>

DiskWriteManifest(m, text, mtime) ==
    /\ edits < MaxEdits
    /\ manifests' = [manifests EXCEPT ![m] = [exists |-> TRUE, text |-> text, mtime |-> mtime]]
    /\ edits' = edits + 1
    /\ last' = NoResult
    /\ UNCHANGED <<gen, persistent, folder, facadeSide, tasks, events, fileSide, registry, moduleRows, componentRows, mscan>>

DiskDeleteManifest(m) ==
    /\ edits < MaxEdits
    /\ manifests[m].exists
    /\ manifests' = [manifests EXCEPT ![m] = NoManifest]
    /\ edits' = edits + 1
    /\ last' = NoResult
    /\ UNCHANGED <<gen, persistent, folder, facadeSide, tasks, events, fileSide, registry, moduleRows, componentRows, mscan>>

(* saveQmlFilesBatch(files) *)
StoreSaveQmlFilesBatch(S, failed, finalizeErr) ==
    /\ S # {}
    /\ \A f \in S : fs[f].exists
    /\ failed \subseteq 1 .. Cardinality(S)
    /\ LET r == saveQmlFilesBatch(qmlRows, BatchOf(S), failed, finalizeErr)
       IN  /\ qmlRows' = r.rows
           /\ last' = [StoreResult("saveQmlFilesBatch") EXCEPT
                          !.batch = SelectFiles(FileOrder, S), !.failed = failed,
                          !.finalizeErr = finalizeErr, !.ok = r.ok]
    /\ UNCHANGED <<gen, persistent, folder, facadeSide, tasks, events, edits, fs, fileIndex, scan, moduleSide>>

(* removeQmlFile(filePath) *)
StoreRemoveQmlFile(f) ==
    /\ qmlRows' = removeQmlFile(qmlRows, f)
    /\ last' = StoreResult("removeQmlFile")
    /\ UNCHANGED <<gen, persistent, folder, facadeSide, tasks, events, edits, fs, fileIndex, scan, moduleSide>>

(* loadAllQmlFiles() *)
StoreLoadAllQmlFiles ==
    /\ LET r == loadAllQmlFiles(qmlRows, fs)
       IN  /\ qmlRows' = r.rows
           /\ last' = [StoreResult("loadAllQmlFiles") EXCEPT !.files = r.loaded]
    /\ UNCHANGED <<gen, persistent, folder, facadeSide, tasks, events, edits, fs, fileIndex, scan, moduleSide>>

(* saveModule(module), for the module a manifest declares *)
StoreSaveModule(m, failed, finalizeErr) ==
    /\ manifests[m].exists
    /\ LET module == ModuleOfText(gen, m, manifests[m].text)
           r == saveModule(gen, moduleRows, componentRows, manifests, module, failed, finalizeErr)
       IN  /\ module.components # {}
           /\ failed \subseteq ModuleStatements(module)
           /\ moduleRows' = r.mrows
           /\ componentRows' = r.crows
           /\ last' = [StoreResult("saveModule") EXCEPT
                          !.module = module, !.statements = failed,
                          !.finalizeErr = finalizeErr, !.ok = r.ok]
    /\ UNCHANGED <<gen, persistent, folder, facadeSide, tasks, events, edits, fileSide, manifests, registry, mscan>>

(* loadAllModules() *)
StoreLoadAllModules ==
    /\ LET r == loadAllModules(moduleRows, componentRows, manifests)
       IN  /\ moduleRows' = r.mrows
           /\ last' = [StoreResult("loadAllModules") EXCEPT !.modules = r.loaded]
    /\ UNCHANGED <<gen, persistent, folder, facadeSide, tasks, events, edits, fileSide, manifests, registry, componentRows, mscan>>

(* What goes wrong in a save of the store's manifest: nothing, finalize,
   the INSERT of the module row, the INSERT of one component row. *)
ModuleFaultMenu ==
    {[failed |-> {}, finalizeErr |-> FALSE], [failed |-> {}, finalizeErr |-> TRUE],
     [failed |-> {"module"}, finalizeErr |-> FALSE], [failed |-> {"Button"}, finalizeErr |-> FALSE]}

NextStore ==
    \/ \E f \in SmallFiles, mtime \in TimeStamps : DiskWrite(f, EmptyText, mtime)
    \/ \E f \in SmallFiles : DiskDelete(f)
    \/ \E m \in StoreManifests, mtime \in TimeStamps : DiskWriteManifest(m, TextButton, mtime)
    \/ \E m \in StoreManifests : DiskDeleteManifest(m)
    \/ \E S \in SUBSET SmallFiles, failed \in SUBSET (1 .. Cardinality(SmallFiles)),
          finalizeErr \in BOOLEAN :
           StoreSaveQmlFilesBatch(S, failed, finalizeErr)
    \/ \E f \in SmallFiles : StoreRemoveQmlFile(f)
    \/ StoreLoadAllQmlFiles
    \/ \E m \in StoreManifests, fault \in ModuleFaultMenu :
           StoreSaveModule(m, fault.failed, fault.finalizeErr)
    \/ StoreLoadAllModules

(* The cache store of either generation over two files and one manifest,
   its callers replaced by arbitrary calls, with statement errors. *)
SpecStore == InitStore /\ [][NextStore]_vars

----------------------------------------------------------------------------
(* The workspace scan on its own *)

(* The texts of the scanned workspace: no import, an import of B.qml, or a
   text the parser rejects. *)
ScanTexts == {t \in Texts : t.imports \in {<<>>, <<[type |-> "file", source |-> "B.qml"]>>}}

InitScan ==
    /\ FacadeIdle
    /\ gen \in {1, 2}
    /\ persistent \in (IF gen = 1 THEN BOOLEAN ELSE {TRUE})
    /\ fs \in [Files -> {NoFile} \cup {d \in OnDisk : d.text \in ScanTexts}]
    /\ fileIndex = [f \in Files |-> NoEntry]
    /\ qmlRows = [f \in Files |-> NoRow]
    /\ scan = Idle(FALSE)
    /\ events = {}
    /\ tasks = {}
    /\ folder = AtRoot
    /\ last = NoResult
    /\ edits = 0
    /\ ModuleSideIdle

(* The extension is started again between two scans. *)
RestartIdle == Quiescent /\ scan.done /\ Restart

NextScan ==
    \/ \E f \in Files, text \in ScanTexts, mtime \in TimeStamps : DiskWrite(f, text, mtime)
    \/ \E f \in Files : DiskDelete(f)
    \/ ScanStart
    \/ ScanBatch
    \/ RestartIdle

(* indexWorkspace of either generation over the three-file workspace, two
   batches long, with files that vanish or change while the scan runs and no
   watcher attached. *)
SpecScan == InitScan /\ [][NextScan]_vars

----------------------------------------------------------------------------
(* The indexer over a store that rejects saves *)

InitFaults ==
    /\ FacadeIdle
    /\ gen \in {1, 2}
    /\ persistent = TRUE
    /\ fs \in [Files -> {NoFile} \cup {d \in OnDisk : d.text \in WatchTexts}]
    /\ fileIndex = [f \in Files |-> NoEntry]
    /\ qmlRows = [f \in Files |-> NoRow]
    /\ scan = Idle(FALSE)
    /\ events = {}
    /\ tasks = {}
    /\ folder = AtRoot
    /\ last = NoResult
    /\ edits = 0
    /\ ModuleSideIdle

NextFaults ==
    \/ \E f \in SmallFiles, text \in WatchTexts, mtime \in TimeStamps : FsWrite(f, text, mtime)
    \/ \E f \in SmallFiles : FsDelete(f)
    \/ ScanStart
    \/ \E fault \in SaveFaultMenu : ScanBatchWith(fault)
    \/ \E f \in SmallFiles, fault \in SaveFaultMenu : IndexFileWith(f, fault)
    \/ \E f \in SmallFiles, fault \in SaveFaultMenu : HandleFileChangedWith(f, fault)
    \/ \E f \in SmallFiles, fault \in SaveFaultMenu : HandleFileCreatedWith(f, fault)
    \/ \E f \in SmallFiles : HandleFileDeleted(f)

(* The source-file indexer of either generation, its store open, where any
   save of entries may fail in a statement or in finalize: the scan over three files, indexFile
   requests and watcher events on two of them. *)
SpecFaults == InitFaults /\ [][NextFaults]_vars

----------------------------------------------------------------------------
(* The indexer with its awaits: tasks that overlap *)

(* indexFile and indexFileForBatch await the read of the file and go on when
   it arrives; other tasks and file-system edits run in between. A task holds
   what it read (exists, text, mtime); a member of a scan batch stays in
   tasks, settled, until the batch has settled as a whole (ok, entry: what it
   returned). *)
ReadTask(src, f) ==
    [src |-> src, file |-> f, exists |-> fs[f].exists, text |-> fs[f].text,
     mtime |-> fs[f].mtime, settled |-> FALSE, ok |-> FALSE, entry |-> NoEntry]

(* The file system as a task saw it when it read its file. *)
AsRead(t) ==
    [fs EXCEPT ![t.file] = [exists |-> t.exists, text |-> t.text, mtime |-> t.mtime]]

(* The texts written in SpecRace: two texts that parse. *)
RaceTexts == {t \in SmallTexts : ~t.malformed}

(* The tasks that can be waiting for their read. *)
PendingTasks ==
    [src : {"scan", "change", "create", "request"}, file : SmallFiles, exists : BOOLEAN, text : RaceTexts,
     mtime : TimeStamps, settled : {FALSE}, ok : {FALSE}, entry : {NoEntry}]

InitRace ==
    /\ FacadeIdle
    /\ gen \in {1, 2}
    /\ persistent \in (IF gen = 1 THEN BOOLEAN ELSE {TRUE})
    /\ fs \in {d \in [Files -> {NoFile} \cup {x \in OnDisk : x.text \in RaceTexts}] :
                   \A f \in Files \ SmallFiles : d[f] = NoFile}
    /\ fileIndex = [f \in Files |-> NoEntry]
    /\ qmlRows = [f \in Files |-> NoRow]
    /\ scan = Idle(FALSE)
    /\ events = {}
    /\ tasks = {}
    /\ folder = AtRoot
    /\ last = NoResult
    /\ edits = 0
    /\ ModuleSideIdle

(* An edit that gives the file a timestamp it did not have. *)
RaceWrite(f, text, mtime) ==
    /\ mtime # fs[f].mtime
    /\ FsWrite(f, text, mtime)

(* The members of a generation 1 batch start: a member with an entry returns
   it, a member with a valid row takes the row over, the others read their
   file. *)
RECURSIVE StartBatch1(_, _, _, _)
StartBatch1(index0, index, rows, batch) ==
    IF batch = <<>> THEN [index |-> index, rows |-> rows, started |-> {}]
    ELSE LET f == Head(batch)
             ld == IF persistent THEN loadQmlFile(rows, fs, f)
                   ELSE [hit |-> FALSE, entry |-> NoEntry, rows |-> rows]
             t == ReadTask("scan", f)
         IN  IF index0[f].live
             THEN StartBatch1(index0, index, rows, Tail(batch))
             ELSE IF ld.hit
             THEN LET rest == StartBatch1(index0, [index EXCEPT ![f] = ld.entry], ld.rows,
                                          Tail(batch))
                  IN  [rest EXCEPT !.started =
                           @ \cup {[t EXCEPT !.settled = TRUE, !.ok = TRUE, !.entry = ld.entry]}]
             ELSE LET rest == StartBatch1(index0, index, ld.rows, Tail(batch))
                  IN  [rest EXCEPT !.started = @ \cup {t}]

(* The batch loop of indexWorkspace takes the next batch and starts its
   members. *)
RaceBatchStart ==
    /\ scan.phase = "batches"
    /\ LET r == IF gen = 1 THEN StartBatch1(fileIndex, fileIndex, qmlRows, ThisBatch)
                ELSE [index |-> fileIndex, rows |-> qmlRows,
                      started |-> {ReadTask("scan", f) : f \in SeqToSet(ThisBatch)}]
       IN  /\ fileIndex' = r.index
           /\ qmlRows' = r.rows
           /\ tasks' = tasks \cup r.started
    /\ scan' = [phase |-> "settling", todo |-> RestOfScan, done |-> scan.done]
    /\ last' = NoResult
    /\ UNCHANGED <<gen, persistent, folder, facadeSide, fs, events, edits, moduleSide>>

(* A watcher handler starts on its event. A change or create handler runs up
   to the read of the file; generation 1 invalidates first on a change and
   takes a valid row of the store over at once. The delete handler has no
   read to wait for. *)
RaceHandlerStart(kind, f) ==
    /\ kind \in {"change", "create"}
    /\ <<kind, f>> \in events
    /\ events' = events \ {<<kind, f>>}
    /\ LET index == IF gen = 1 /\ kind = "change" THEN invalidateFile(fileIndex, <<>>, f).index
                    ELSE fileIndex
           ld == IF gen = 1 /\ persistent THEN loadQmlFile(qmlRows, fs, f)
                 ELSE [hit |-> FALSE, entry |-> NoEntry, rows |-> qmlRows]
       IN  IF ld.hit
           THEN /\ fileIndex' = [index EXCEPT ![f] = ld.entry]
                /\ qmlRows' = saveQmlFilesBatch(ld.rows, <<[file |-> f, entry |-> ld.entry]>>,
                                                {}, FALSE).rows
                /\ tasks' = tasks
           ELSE /\ fileIndex' = index
                /\ qmlRows' = ld.rows
                /\ tasks' = tasks \cup {ReadTask(kind, f)}
    /\ last' = NoResult
    /\ UNCHANGED <<gen, persistent, folder, facadeSide, fs, scan, edits, moduleSide>>

(* An indexFile(uri) request starts, one at a time: generation 1 takes a
   valid row of the store over at once and saves it again, otherwise the
   request runs up to the read of the file. *)
RaceRequestStart(f) ==
    /\ \A t \in tasks : t.src # "request"
    /\ LET ld == IF gen = 1 /\ persistent THEN loadQmlFile(qmlRows, fs, f)
                 ELSE [hit |-> FALSE, entry |-> NoEntry, rows |-> qmlRows]
       IN  IF ld.hit
           THEN /\ fileIndex' = [fileIndex EXCEPT ![f] = ld.entry]
                /\ qmlRows' = saveQmlFilesBatch(ld.rows, <<[file |-> f, entry |-> ld.entry]>>,
                                                {}, FALSE).rows
                /\ tasks' = tasks
           ELSE /\ fileIndex' = fileIndex
                /\ qmlRows' = ld.rows
                /\ tasks' = tasks \cup {ReadTask("request", f)}
    /\ last' = NoResult
    /\ UNCHANGED <<gen, persistent, folder, facadeSide, fs, scan, events, edits, moduleSide>>

(* The read of a task arrives: the task parses what it read, enters the
   entry and, outside a scan batch, saves it. *)
TaskSettle(t) ==
    /\ t \in tasks
    /\ ~t.settled
    /\ LET r == IF gen = 1 THEN indexFileForBatch(fileIndex, qmlRows, AsRead(t), FALSE, t.file)
                ELSE indexFile2(fileIndex, qmlRows, AsRead(t), t.file, t.src # "scan", NoFault)
           save == gen = 1 /\ persistent /\ r.ok /\ t.src # "scan"
       IN  /\ fileIndex' = r.index
           /\ qmlRows' = IF save
                         THEN saveQmlFilesBatch(r.rows, <<[file |-> t.file, entry |-> r.entry]>>,
                                                {}, FALSE).rows
                         ELSE r.rows
           /\ tasks' = IF t.src = "scan"
                       THEN (tasks \ {t}) \cup {[t EXCEPT !.settled = TRUE, !.ok = r.ok,
                                                            !.entry = r.entry]}
                       ELSE tasks \ {t}
    /\ last' = NoResult
    /\ UNCHANGED <<gen, persistent, folder, facadeSide, fs, scan, events, edits, moduleSide>>

(* The members of the batch have all settled: generation 1 saves the entries
   they returned; after the last batch it builds the dependency graph. *)
RaceBatchEnd ==
    /\ scan.phase = "settling"
    /\ \A t \in tasks : t.src = "scan" => t.settled
    /\ LET members == {t \in tasks : t.src = "scan"}
           order == SelectFiles(FileOrder, {t.file : t \in {x \in members : x.ok}})
           writes == [i \in 1 .. Len(order) |->
                         [file |-> order[i],
                          entry |-> (CHOOSE t \in members : t.file = order[i]).entry]]
       IN  /\ tasks' = tasks \ members
           /\ qmlRows' = IF gen = 1 /\ persistent
                         THEN saveQmlFilesBatch(qmlRows, writes, {}, FALSE).rows
                         ELSE qmlRows
    /\ fileIndex' = IF gen = 1 /\ scan.todo = <<>> THEN buildDependencyGraph(fileIndex)
                    ELSE fileIndex
    /\ scan' = IF scan.todo = <<>> THEN Idle(TRUE)
               ELSE [phase |-> "batches", todo |-> scan.todo, done |-> scan.done]
    /\ last' = NoResult
    /\ UNCHANGED <<gen, persistent, folder, facadeSide, fs, events, edits, moduleSide>>

NextRace ==
    \/ \E f \in SmallFiles, text \in RaceTexts, mtime \in TimeStamps : RaceWrite(f, text, mtime)
    \/ \E f \in SmallFiles : FsDelete(f)
    \/ ScanStart
    \/ RaceBatchStart
    \/ RaceBatchEnd
    \/ \E kind \in {"change", "create"}, f \in SmallFiles : RaceHandlerStart(kind, f)
    \/ \E f \in SmallFiles : RaceRequestStart(f)
    \/ \E f \in SmallFiles : HandleFileDeleted(f)
    \/ \E t \in PendingTasks : TaskSettle(t)

(* The source-file indexer of either generation over the two-file workspace
   with the workspace scan, the watcher handlers and the file-system edits
   interleaved at the awaits of the indexing tasks. *)
SpecRace == InitRace /\ [][NextRace]_vars

----------------------------------------------------------------------------
(* The watcher with files in excluded folders *)

InitExclude ==
    /\ FacadeIdle
    /\ gen \in {1, 2}
    /\ persistent \in (IF gen = 1 THEN BOOLEAN ELSE {TRUE})
    /\ folder \in {fo \in [Files -> FolderMenu] : \A f \in Files \ SmallFiles : fo[f] = ""}
    /\ fs = [f \in Files |-> NoFile]
    /\ fileIndex = [f \in Files |-> NoEntry]
    /\ qmlRows = [f \in Files |-> NoRow]
    /\ scan = Idle(FALSE)
    /\ events = {}
    /\ tasks = {}
    /\ last = NoResult
    /\ edits = 0
    /\ ModuleSideIdle

(* The callback of the watcher returns before it calls the handler:
   generation 1 subscribes through FileWatcher with the exclude pattern,
   generation 2 subscribes to the vscode watcher itself and filters nothing. *)
Ignored(f) == gen = 1 /\ shouldIgnore(RelativePath(f))

IgnoreEvent(kind, f) ==
    /\ <<kind, f>> \in events
    /\ Ignored(f)
    /\ events' = events \ {<<kind, f>>}
    /\ last' = Result("ignored", f, TRUE, NoEntry, <<>>)
    /\ UNCHANGED <<gen, persistent, folder, facadeSide, tasks, edits, fileSide, moduleSide>>

DispatchChanged(f) == ~Ignored(f) /\ HandleFileChanged(f)

DispatchCreated(f) == ~Ignored(f) /\ HandleFileCreated(f)

DispatchDeleted(f) == ~Ignored(f) /\ HandleFileDeleted(f)

NextExclude ==
    \/ \E f \in SmallFiles, text \in WatchTexts : WatchWrite(f, text, 1)
    \/ \E f \in SmallFiles : WatchDelete(f)
    \/ \E kind \in HandlerOps, f \in SmallFiles : IgnoreEvent(kind, f)
    \/ \E f \in SmallFiles : DispatchChanged(f)
    \/ \E f \in SmallFiles : DispatchCreated(f)
    \/ \E f \in SmallFiles : DispatchDeleted(f)

(* The watcher of either generation and its handlers over two files, each in
   the workspace folder or in an excluded folder. *)
SpecExclude == InitExclude /\ [][NextExclude]_vars

----------------------------------------------------------------------------
(* Claims about the source-file index *)

Listed(x, s) == x \in SeqToSet(s)

(* C1: in every quiescent state after a completed workspace scan, whatever
   events and requests followed, for all live entries X and Y, Y is listed in
   X.dependedBy if and only if X is listed in Y.dependsOn. *)
C1_GraphInvariant ==
    (Quiescent /\ scan.done) =>
        \A x \in Files, y \in Files :
            (fileIndex[x].live /\ fileIndex[y].live) =>
                (Listed(y, fileIndex[x].dependedBy) <=> Listed(x, fileIndex[y].dependsOn))

(* C2: every uri in a live entry's dependedBy is the uri of a live entry. *)
C2_NoDanglingReverseEdge ==
    \A x \in Files :
        fileIndex[x].live => \A u \in SeqToSet(fileIndex[x].dependedBy) : fileIndex[u].live

(* C3: the cascade started by a change or delete event terminates, and every
   entry on a cycle of the dependency graph through the invalidated entry is
   deleted from the index exactly once. *)
C3_CascadeTermination ==
    (last.op \in {"change", "delete"}) =>
        /\ \A m \in last.cycle : Count(m, last.removed) = 1
        /\ \A m \in Files : Count(m, last.removed) <= 1

(* C3 witness: a cascade has run through a cycle of three entries. *)
C3_Witness ==
    /\ last.op = "change"
    /\ last.cycle = Files
    /\ Len(last.removed) = 3

(* C4: a call of indexFile that follows a call of indexFile on the same file,
   with no change of the file in between, returns the same data and leaves
   the index as it was. *)
C4_IndexFileIdempotent ==
    [][(last.op = "indexFile" /\ last'.op = "indexFile" /\ last'.file = last.file) =>
          /\ last'.ok = last.ok
          /\ last'.entry = last.entry
          /\ fileIndex' = fileIndex]_vars

(* C4 witness: indexFile was called twice in a row on a file and returned an
   entry that came from the parser and has an import. *)
C4_Witness ==
    /\ last.op = "indexFile"
    /\ last.again
    /\ last.ok
    /\ last.entry.imports # <<>>

(* C9: once a delete event for a file has been handled with no other
   operation in flight, the index has no entry and the store has no row for
   that file. *)
C9_DeleteRemovesEntryAndRow ==
    (last.op = "delete" /\ Quiescent) =>
        /\ ~fileIndex[last.file].live
        /\ ~qmlRows[last.file].present

(* C9 witness: the delete handler removed an entry and a row that existed. *)
C9_Witness ==
    /\ last.op = "delete"
    /\ last.hadRow
    /\ last.removed # <<>>
    /\ Quiescent

(* The handler the watcher calls for an event. *)
HandlerOf(e) ==
    CASE e[1] = "change" -> HandleFileChanged(e[2])
      [] e[1] = "create" -> HandleFileCreated(e[2])
      [] e[1] = "delete" -> HandleFileDeleted(e[2])

(* C12: a handler that fails is caught by the watcher: the step that handles
   one event leaves every other raised event pending, and every pending event
   can be dispatched to its handler, also right after a handler has failed. *)
C12_WatcherErrorIsolation ==
    [][/\ \A e \in events : (e \notin events') => (events' = events \ {e})
       /\ \A e \in events : ENABLED HandlerOf(e)]_vars

(* C12 witness: a handler has run to its end right after the handler of
   another event failed. *)
C12_Witness ==
    /\ last.op \in HandlerOps
    /\ last.ok
    /\ last.afterFailure

(* The file can be read and parses. *)
Indexable(f) == fs[f].exists /\ ~fs[f].text.malformed

(* C11: in every batch step of indexWorkspace, whichever members of the batch
   fail to be read or parsed, every other member of the batch has an entry
   afterwards, the batches after it stay scheduled, and the scan returns
   normally after the last batch. *)
C11_BatchFailureIsolation ==
    [][(scan.phase = "batches" /\ scan'.todo # scan.todo) =>
          /\ \A f \in SeqToSet(ThisBatch) : Indexable(f) => fileIndex'[f].live
          /\ scan'.todo = RestOfScan
          /\ (RestOfScan = <<>>) => (scan'.phase = "idle" /\ scan'.done)
          /\ (RestOfScan # <<>>) => scan'.phase = "batches"]_vars

(* C11 witness: a scan over three files has returned; A.qml, in the first
   batch, could not be parsed and has no entry, B.qml and C.qml have theirs. *)
C11_Witness ==
    /\ Quiescent /\ scan.done /\ edits = 0
    /\ fs["A.qml"].exists /\ fs["A.qml"].text.malformed
    /\ ~fileIndex["A.qml"].live
    /\ fileIndex["B.qml"].live /\ fileIndex["C.qml"].live

(* The files the file-kind imports of a text resolve to. *)
FileImports(text) ==
    {text.imports[i].source : i \in {j \in 1 .. Len(text.imports) : text.imports[j].type = "file"}}

(* C20: when indexWorkspace has returned and no file was edited, for all
   indexed files A and B where A has a file-kind import that resolves to B,
   B is in A.dependsOn and A is in B.dependedBy, and an indexed file without
   file-kind imports has an empty dependsOn. *)
C20_PostScanGraph ==
    (Quiescent /\ scan.done /\ edits = 0) =>
        /\ \A a \in Files, b \in Files :
               (fileIndex[a].live /\ fileIndex[b].live /\ b \in FileImports(fs[a].text)) =>
                   /\ Listed(b, fileIndex[a].dependsOn)
                   /\ Listed(a, fileIndex[b].dependedBy)
        /\ \A a \in Files :
               (fileIndex[a].live /\ FileImports(fs[a].text) = {}) => fileIndex[a].dependsOn = <<>>

(* C22: in a step whose save of newly indexed entries fails, the save
   writes no row (every row is as before or was deleted ahead of the save as
   stale), and every entry handed to the save is in the index afterwards,
   live and with the imports, digest, timestamp and dependsOn it was
   produced with. *)
C22_FailedSaveKeepsIndex ==
    [][last'.saveFailed =>
          /\ \A f \in Files : qmlRows'[f] = qmlRows[f] \/ qmlRows'[f] = NoRow
          /\ last'.produced # {}
          /\ \A w \in last'.produced :
                 /\ w.entry.live
                 /\ [fileIndex'[w.file] EXCEPT !.dependedBy = <<>>]
                        = [w.entry EXCEPT !.dependedBy = <<>>]]_vars

(* The entry of f carries the digest and the timestamp of the file as it is
   on disk. *)
Current(index, f) ==
    /\ index[f].live
    /\ index[f].hash = hashContent(fs[f].text)
    /\ index[f].mtime = fs[f].mtime

(* C23: a batch step of indexWorkspace in which no member fails leaves every
   member of the batch with a live entry that carries the digest and the
   timestamp of the file, whatever entry or row was there before; a scan
   that no edit interrupts so leaves every existing file with such an entry. *)
C23_FullScanRecovers ==
    [][(/\ scan.phase = "batches"
        /\ scan'.todo # scan.todo
        /\ \A f \in SeqToSet(ThisBatch) : Indexable(f)) =>
          \A f \in SeqToSet(ThisBatch) : Current(fileIndex', f)]_vars

(* The entry without its reverse edges, which the store does not keep. *)
Forward(e) == [e EXCEPT !.dependedBy = <<>>]

(* C25: with the store open, every batch step of indexWorkspace leaves, for
   every member of the batch whose entry the step produced, a row with the
   imports, digest, timestamp and dependsOn of that entry; the rows are there
   when the next batch starts and when the scan returns. *)
C25_BatchPersistence ==
    [][(scan.phase = "batches" /\ scan'.todo # scan.todo /\ persistent) =>
          \A f \in SeqToSet(ThisBatch) :
              (fileIndex'[f].live /\ Forward(fileIndex'[f]) # Forward(fileIndex[f])) =>
                  qmlRows'[f] = RowOfEntry(fileIndex'[f])]_vars

(* C24: once the scan has returned and no event and no task is pending, for
   every file: if it is gone there is no entry and no row for it, and if it
   exists its entry and its row, where there is one, carry the digest of its
   present content. *)
C24_RaceConvergence ==
    (Quiescent /\ events = {} /\ tasks = {}) =>
        \A f \in Files :
            IF fs[f].exists
            THEN /\ fileIndex[f].live => fileIndex[f].hash = hashContent(fs[f].text)
                 /\ qmlRows[f].present => qmlRows[f].hash = hashContent(fs[f].text)
            ELSE /\ ~fileIndex[f].live
                 /\ ~qmlRows[f].present

(* C26: in indexWorkspace the batches run one after the other: no member of a
   batch starts while a member of the batch before it has not settled or that
   batch's write has not finished; every scan that completes has rebuilt the
   reverse dependencies, so that the index it leaves is the one
   buildDependencyGraph makes of it; and no reverse edge is entered while
   the scan still has a batch to run or to settle. *)
C26_BatchOrdering ==
    [][/\ (\E t \in tasks' \ tasks : t.src = "scan" /\ ~t.settled) =>
              (\A t \in tasks : t.src # "scan")
       /\ (scan'.phase = "idle" /\ scan'.done /\ (scan.phase # "idle" \/ ~scan.done)) =>
              fileIndex' = buildDependencyGraph(fileIndex')
       /\ (scan.phase # "idle" /\ scan'.phase # "idle") =>
              \A f \in Files :
                  fileIndex'[f].live =>
                      fileIndex'[f].dependedBy \in {<<>>, fileIndex[f].dependedBy}]_vars

(* C27: indexFile on a file that exists and parses, for which the index holds
   no entry whose digest and timestamp both equal the file's, parses the
   file and replaces the entry, and the entry it returns carries the file's
   digest; it returns the entry of the index unchanged only when digest and
   timestamp both match. *)
C27_ReextractionCondition ==
    [][(last'.op = "indexFile") =>
          LET f == last'.file
          IN  /\ (fs[f].exists /\ ~fs[f].text.malformed /\ ~Current(fileIndex, f)) =>
                     /\ fileIndex'[f] = ParsedEntry(gen, fs[f].text, fs[f].mtime)
                     /\ last'.ok
                     /\ last'.entry.hash = hashContent(fs[f].text)
              /\ (last'.ok /\ fileIndex[f].live /\ last'.entry = fileIndex[f]
                           /\ fileIndex'[f] = fileIndex[f]) =>
                     Current(fileIndex, f)]_vars

(* The live entries from which a chain of dependsOn edges leads to an entry
   of S, with S. *)
RECURSIVE DependingOn(_, _)
DependingOn(index, S) ==
    LET step == {y \in Files : index[y].live /\ \E x \in S : x \in SeqToSet(index[y].dependsOn)}
    IN  IF step \subseteq S THEN S ELSE DependingOn(index, S \cup step)

(* C28: once a workspace scan has completed and none is running, the
   invalidation that a change or delete event on X starts in generation 1
   deletes from the index X and every entry that depended on X through a
   chain of dependsOn edges among the entries live before the event, and no
   other entry. *)
C28_CascadeExtent ==
    [][(gen = 1 /\ Quiescent /\ scan.done /\ last'.op \in {"change", "delete"}) =>
          SeqToSet(last'.removed) = IF fileIndex[last'.file].live
                                    THEN DependingOn(fileIndex, {last'.file})
                                    ELSE {}]_vars

(* C30: a watcher event for a path in an excluded folder, directly in the
   workspace folder or further down, is taken from the pending events
   without any of the change, create and delete handlers running, and the
   index is left as it was. *)
C30_WatcherExclusion ==
    [][\A e \in events :
          (InExcludedFolder(RelativePath(e[2])) /\ e \notin events') =>
              /\ last'.op \notin HandlerOps
              /\ fileIndex' = fileIndex]_vars

----------------------------------------------------------------------------
(* Claims about the module registry *)

ModuleOps == {"indexQmldir", "qmldirChanged", "qmldirCreated"}

(* The module the manifest of the last operation declares now. *)
Declared == ModuleOfText(gen, last.manifest, manifests[last.manifest].text)

(* C6: indexing a manifest with no component or singleton directive registers
   no module, and in every state no module without components is in the
   registry or in the store. *)
C6_EmptyManifestRule ==
    /\ \A i \in 1 .. Len(registry) : registry[i].components # {}
    /\ \A n \in ModuleNames :
           moduleRows[n].present => \E r \in componentRows : r.module = n
    /\ (last.op \in ModuleOps /\ last.parsed /\ Declared.components = {}) =>
           /\ ~last.indexed
           /\ findByQmldirPath(registry, last.manifest) = 0

(* C6 witness: a manifest that has lines but declares no component has been
   read and parsed. *)
C6_Witness ==
    /\ last.op \in ModuleOps
    /\ last.parsed
    /\ manifests[last.manifest].text = TextNoTypes
    /\ Len(registry) > Len(BuiltinModules)

(* C7: after a manifest delete event has been handled, the module that was
   registered from the manifest and its components are in neither the
   registry nor the store. *)
C7_ManifestDeleteRemovesModule ==
    (last.op = "qmldirDeleted" /\ last.registered # "") =>
        /\ findByQmldirPath(registry, last.manifest) = 0
        /\ \A i \in 1 .. Len(registry) : registry[i].name # last.registered
        /\ ~moduleRows[last.registered].present
        /\ \A r \in componentRows : r.module # last.registered

(* C8: after a manifest change event has been handled, the registry entry of
   the manifest holds the components the manifest's new content declares. *)
C8_ManifestChangeReplacesEntry ==
    (last.op = "qmldirChanged" /\ manifests[last.manifest].exists /\ Declared.components # {}) =>
        \E i \in 1 .. Len(registry) :
            /\ registry[i].qmldirPath = last.manifest
            /\ registry[i].name = Declared.name
            /\ registry[i].components = Declared.components

(* The name the manifest's module directive declares, "" without one. *)
DeclaredName(g, m, text) ==
    CollectEntries(g, m, parse(g, text), [moduleName |-> "", components |-> {}]).moduleName

(* The segments after the first root marker joined by dots; the last segment
   when no segment is a root marker. *)
NameFromPath(moduleDir) ==
    LET marked == {i \in 1 .. Len(moduleDir) : moduleDir[i] \in RootMarkers}
        first == CHOOSE i \in marked : \A j \in marked : i <= j
    IN  IF marked = {} THEN moduleDir[Len(moduleDir)]
        ELSE JoinDots(SubSeq(moduleDir, first + 1, Len(moduleDir)))

(* C16: a module registered from a manifest without a module directive has
   the name made of the directory segments after the first root marker, or
   the directory's base name when the path has no root marker. *)
C16_ModuleNameInference ==
    (/\ last.op \in ModuleOps
     /\ last.indexed
     /\ DeclaredName(gen, last.manifest, manifests[last.manifest].text) = "") =>
        \E mod \in {registry[i] : i \in 1 .. Len(registry)} :
            /\ mod.qmldirPath = last.manifest
            /\ mod.name = NameFromPath(ModuleDir(last.manifest))

(* The first tokens that open a line other than a component declaration. *)
Keywords ==
    {"module", "singleton", "typeinfo", "plugin", "optional", "classname", "default",
     "depends", "import", "designersupported", "#"}

(* singleton T V P *)
IsSingletonDirective(line) == Len(line) = 4 /\ line[1] = "singleton"

(* T V P *)
IsComponentDirective(line) == Len(line) = 3 /\ line[1] \notin Keywords

(* The component a directive line stands for in manifest m. *)
DirectiveComponent(m, line) ==
    IF IsSingletonDirective(line)
    THEN [name |-> line[2], filePath |-> <<m, line[4]>>, isBuiltin |-> FALSE,
          isSingleton |-> TRUE, version |-> line[3]]
    ELSE [name |-> line[1], filePath |-> <<m, line[3]>>, isBuiltin |-> FALSE,
          isSingleton |-> FALSE, version |-> line[2]]

(* C19: the module registered by indexing a manifest has, for every singleton
   directive and every component directive of the manifest, the component the
   directive declares (type name, version, the manifest's directory joined
   with the path, singleton mark), has no other component, and is registered
   under the name of the module directive. *)
C19_ManifestDirectives ==
    (last.op \in ModuleOps /\ last.indexed) =>
        LET m == last.manifest
            text == manifests[m].text
            directives == {i \in 1 .. Len(text) :
                              IsSingletonDirective(text[i]) \/ IsComponentDirective(text[i])}
        IN  \E mod \in {registry[i] : i \in 1 .. Len(registry)} :
                /\ mod.qmldirPath = m
                /\ mod.components = {DirectiveComponent(m, text[i]) : i \in directives}
                /\ \A i \in 1 .. Len(text) :
                       (Len(text[i]) = 2 /\ text[i][1] = "module") => mod.name = text[i][2]

(* C19 witness: a manifest with a module directive, a component directive and
   a singleton directive has been indexed. *)
C19_Witness ==
    /\ last.op \in ModuleOps
    /\ last.indexed
    /\ manifests[last.manifest].text = TextButton
    /\ \E i \in 1 .. Len(registry) :
           /\ registry[i].name = "Foo.Bar"
           /\ \E c \in registry[i].components : c.name = "Theme" /\ c.isSingleton

(* C29: indexing a manifest whose path is the qmldirPath of a module already
   in the registry (by the workspace scan, by the create handler or by the
   change handler of generation 1) does not parse the manifest, reports that
   nothing was indexed, and leaves the registry and both tables of the store
   as they were. *)
C29_DedupIsNoOp ==
    [][(/\ \/ last'.op \in {"indexQmldir", "qmldirCreated"}
           \/ (gen = 1 /\ last'.op = "qmldirChanged")
        /\ findByQmldirPath(registry, last'.manifest) # 0) =>
          /\ ~last'.indexed
          /\ ~last'.parsed
          /\ registry' = registry
          /\ moduleRows' = moduleRows
          /\ componentRows' = componentRows]_vars

(* A manifest that is on disk and registered has just been skipped by the
   workspace scan. *)
C29_Witness ==
    /\ last.op = "indexQmldir"
    /\ manifests[last.manifest].exists
    /\ last.registered # ""
    /\ findByQmldirPath(registry, last.manifest) # 0
    /\ ~last.indexed
    /\ ~last.parsed

----------------------------------------------------------------------------
(* Claims about module resolution *)

(* The last segments of the name are the segments of the request, one by one. *)
SegmentSuffix(name, request) ==
    LET parts == SplitDots(name)
        wanted == SplitDots(request)
        k == Len(wanted)
    IN  /\ k <= Len(parts)
        /\ \A i \in 1 .. k : parts[Len(parts) - k + i] = wanted[i]

Registered == {registry[i] : i \in 1 .. Len(registry)}

(* The modules registered from manifests. *)
UserModules == {mod \in Registered : mod.qmldirPath # NoPath}

CatalogNames == {BuiltinModules[i].name : i \in 1 .. Len(BuiltinModules)}

(* C13: resolveModule returns the module registered under exactly the
   requested name if there is one; otherwise a module registered from a
   manifest whose name matches the request as a suffix if there is one, ahead
   of any builtin module; and it returns null only if no name matches exactly
   or as a suffix and the builtin catalog has no module of that name. *)
C13_ResolutionOrder ==
    (last.op = "resolveModule") =>
        LET exact == {mod \in Registered : mod.name = last.request}
            userSuffix == {mod \in UserModules : SegmentSuffix(mod.name, last.request)}
        IN  /\ (exact # {}) => (last.found /\ last.module \in exact)
            /\ (exact = {} /\ userSuffix # {}) => (last.found /\ last.module \in userSuffix)
            /\ (~last.found) =>
                   /\ \A mod \in Registered : ~SegmentSuffix(mod.name, last.request)
                   /\ last.request \notin CatalogNames

(* C14: when no module is registered under exactly the requested name, a
   module that resolveModule returns has the segments of the request as its
   last segments; and when Foo.Bar.Baz is the only registered name with the
   last segment Baz, resolving Baz returns its components. *)
C14_SuffixResolution ==
    (last.op = "resolveModule" /\ \A mod \in Registered : mod.name # last.request) =>
        /\ last.found => SegmentSuffix(last.module.name, last.request)
        /\ (/\ last.request = "Baz"
            /\ {mod.name : mod \in {x \in Registered : SegmentSuffix(x.name, "Baz")}}
                   = {"Foo.Bar.Baz"}) =>
               /\ last.found
               /\ \E mod \in Registered : /\ mod.name = "Foo.Bar.Baz"
                                            /\ last.module.components = mod.components

(* C14 witness: Baz was resolved to Foo.Bar.Baz while Foo.BarBaz, whose text
   ends in Baz, was registered ahead of it. *)
C14_Witness ==
    /\ last.op = "resolveModule"
    /\ last.request = "Baz"
    /\ last.found
    /\ last.module.name = "Foo.Bar.Baz"
    /\ \E mod \in Registered : mod.name = "Foo.BarBaz"

(* C15: two resolveModule calls for the same request with no change of the
   registry between them return the same module. *)
C15_DeterministicAmbiguity ==
    [][(/\ last.op = "resolveModule"
        /\ last'.op = "resolveModule"
        /\ last'.request = last.request
        /\ last'.version = last.version
        /\ registry' = registry) =>
          /\ last'.found = last.found
          /\ last'.module = last.module]_vars

(* C15 witness: Widgets was resolved twice in a row with A.Widgets and
   B.Widgets both registered. *)
C15_Witness ==
    /\ last.op = "resolveModule"
    /\ last.again
    /\ last.request = "Widgets"
    /\ last.found
    /\ {"A.Widgets", "B.Widgets"} \subseteq {mod.name : mod \in Registered}

(* C17: in every state each module of the builtin catalog is in the registry
   as it was entered at startup. *)
C17_BuiltinEntriesNeverMutate ==
    \A i \in 1 .. Len(BuiltinModules) : BuiltinModules[i] \in Registered

(* C18: in every state, for every module of the builtin catalog and every
   component of it, resolveComponent returns a component with isBuiltin set
   and no file path. *)
C18_BuiltinResolution ==
    \A i \in 1 .. Len(BuiltinModules) :
        \A c \in BuiltinModules[i].components :
            LET r == resolveComponent(gen, registry, BuiltinModules[i].name, c.name, "")
            IN  /\ r.found
                /\ r.component.isBuiltin
                /\ r.component.filePath = <<>>

----------------------------------------------------------------------------
(* Claims about the store *)

(* C5: a saveQmlFilesBatch call over N distinct paths that succeeds leaves
   exactly the N rows of its entries and no other change; a call in which a
   statement fails leaves the table as it was before the call. *)
C5_TransactionalBatch ==
    (last.op = "saveQmlFilesBatch") =>
        IF last.failed = {} /\ ~last.finalizeErr
        THEN \A f \in Files :
                 qmlRows[f] = IF Listed(f, last.batch)
                              THEN RowOfEntry(ParsedEntry(gen, fs[f].text, fs[f].mtime))
                              ELSE last.before[f]
        ELSE qmlRows = last.before

(* C10: loadAllQmlFiles and loadAllModules return exactly the rows whose
   timestamp equals the present timestamp of the file they name; every other
   row, also the row of a file that is gone, is deleted and is not returned. *)
C10_StartupValidation ==
    /\ (last.op = "loadAllQmlFiles") =>
           \A f \in Files :
               IF last.before[f].present /\ fs[f].exists /\ fs[f].mtime = last.before[f].mtime
               THEN /\ last.files[f] = EntryOfRow(last.before[f])
                    /\ qmlRows[f] = last.before[f]
               ELSE /\ ~last.files[f].live
                    /\ ~qmlRows[f].present
    /\ (last.op = "loadAllModules") =>
           \A n \in ModuleNames :
               LET row == last.beforeModules[n]
                   valid == /\ row.present
                            /\ manifests[row.qmldirPath].exists
                            /\ manifests[row.qmldirPath].mtime = row.mtime
               IN  IF valid
                   THEN /\ \E i \in 1 .. Len(last.modules) : last.modules[i].name = n
                        /\ moduleRows[n] = row
                   ELSE /\ \A i \in 1 .. Len(last.modules) : last.modules[i].name # n
                        /\ ~moduleRows[n].present

(* C21: after a saveModule call in which no statement failed, the store holds
   the module's row and, for the module, exactly the rows of its components,
   and nothing else changed; after a call in which a statement or finalize
   failed, both tables are as they were before the call. *)
C21_ModuleSaveAtomicity ==
    (last.op = "saveModule") =>
        LET name == last.module.name
        IN  IF last.statements = {} /\ ~last.finalizeErr
            THEN /\ moduleRows[name].present
                 /\ {r \in componentRows : r.module = name}
                        = {ComponentRow(name, c) : c \in last.module.components}
                 /\ {r \in componentRows : r.module # name}
                        = {r \in last.beforeComponents : r.module # name}
                 /\ \A n \in ModuleNames \ {name} : moduleRows[n] = last.beforeModules[n]
            ELSE /\ moduleRows = last.beforeModules
                 /\ componentRows = last.beforeComponents

----------------------------------------------------------------------------
(* Manifests with metadata lines *)

(* Manifests that carry, next to their directives, blank lines, comments and
   metadata lines of two and of three fields. *)
TextDepends == << <<"module", "Foo.Bar">>, <<>>, <<"#", "dependencies">>,
                  <<"depends", "QtQuick", "2.15">>, <<"import", "QtQml", "2.0">>,
                  <<"Button", "1.0", "Button.qml">> >>
TextPlugin  == << <<"module", "Other">>, <<"plugin", "otherplugin">>,
                  <<"classname", "OtherPlugin">>, <<"typeinfo", "plugins.qmltypes">>,
                  <<"Card", "2.0", "Card.qml">> >>
TextPluginPath == << <<"plugin", "fooplugin", "lib">>,
                     <<"singleton", "Theme", "1.0", "Theme.qml">> >>

MetadataTexts == {TextDepends, TextPlugin, TextPluginPath, TextOther}

MetadataKeywords == {"depends", "import", "plugin", "classname", "typeinfo"}

InitMetadata ==
    /\ FacadeIdle
    /\ gen \in {1, 2}
    /\ persistent = TRUE
    /\ manifests \in [Manifests -> {NoManifest} \cup [exists : {TRUE}, text : MetadataTexts, mtime : {1}]]
    /\ registry = BuiltinModules
    /\ moduleRows = [n \in ModuleNames |-> NoModuleRow]
    /\ componentRows = {}
    /\ mscan = <<>>
    /\ events = {}
    /\ tasks = {}
    /\ folder = AtRoot
    /\ last = NoResult
    /\ edits = 0
    /\ FileSideIdle

NextMetadata ==
    \/ \E m \in Manifests, text \in MetadataTexts, mtime \in TimeStamps : ManifestWrite(m, text, mtime)
    \/ \E m \in Manifests : ManifestDelete(m)
    \/ ModuleScanStart
    \/ ModuleScanStep
    \/ \E m \in Manifests : HandleQmldirChanged(m)
    \/ \E m \in Manifests : HandleQmldirCreated(m)
    \/ \E m \in Manifests : HandleQmldirDeleted(m)
    \/ ModuleRestart

(* The module indexer of either generation over manifests with metadata
   lines. *)
SpecMetadata == InitMetadata /\ [][NextMetadata]_vars

(* The text without its blank lines, comments and metadata lines. *)
WithoutMetadata(text) ==
    SelectSeq(text, LAMBDA line : /\ line # <<>>
                                  /\ ~IsComment(line)
                                  /\ line[1] \notin MetadataKeywords)

(* C31: the module registered by indexing a manifest is the module the
   manifest declares without its blank lines, comments and dependency,
   import, plugin, classname and typeinfo lines: these lines add no component
   and do not change the module name. *)
C31_MetadataLinesInert ==
    (last.op \in ModuleOps /\ last.indexed) =>
        LET m == last.manifest
            text == manifests[m].text
        IN  \E mod \in {registry[i] : i \in 1 .. Len(registry)} :
                /\ mod.qmldirPath = m
                /\ mod.name = ModuleOfText(gen, m, WithoutMetadata(text)).name
                /\ mod.components = ModuleOfText(gen, m, WithoutMetadata(text)).components
                /\ \A c \in mod.components : c.name \notin MetadataKeywords

----------------------------------------------------------------------------
(* Import classification and dependency resolution on paths *)

(* The sources import statements name, quotes removed. *)
ImportSources ==
    {"./A.qml", "../A.qml", "/lib/A.qml", "./../B.qml", "A.qml", "QtQuick", "./components", "../lib"}

(* The files that hold the import statements. *)
ImportingFiles == {"/ws/B.qml", "/ws/ui/C.qml", "/ws/ui/views/D.qml"}

MaxImports == 2

(* s.startsWith(t) *)
StartsWith(s, t) == Len(t) <= Len(s) /\ SubSeq(s, 1, Len(t)) = t

(* QmlFileExtractor.extractImports: the type of an import by its source. *)
importType(source) ==
    IF StartsWith(source, ".") \/ StartsWith(source, "/")
    THEN IF EndsWith(source, ".qml") THEN "file" ELSE "directory"
    ELSE "module"

(* QmlFileExtractor.extractImports over the sources of the import nodes. *)
extractImports(sources) ==
    [i \in 1 .. Len(sources) |-> [type |-> importType(sources[i]), source |-> sources[i]]]

(* path.split('/') *)
RECURSIVE SplitPath(_)
SplitPath(path) ==
    LET slashes == {i \in 1 .. Len(path) : SubSeq(path, i, i) = "/"}
        first == CHOOSE i \in slashes : \A j \in slashes : i <= j
    IN  IF slashes = {} THEN <<path>>
        ELSE <<SubSeq(path, 1, first - 1)>> \o SplitPath(SubSeq(path, first + 1, Len(path)))

(* posix.normalize on the segments of an absolute path: empty segments and
   `.` are dropped, `..` takes the segment before it. *)
RECURSIVE normalize(_, _)
normalize(segments, acc) ==
    IF segments = <<>> THEN acc
    ELSE LET s == Head(segments)
         IN  normalize(Tail(segments),
                       IF s \in {"", "."} THEN acc
                       ELSE IF s = ".." THEN (IF acc = <<>> THEN acc ELSE SubSeq(acc, 1, Len(acc) - 1))
                       ELSE Append(acc, s))

RECURSIVE JoinSlashes(_)
JoinSlashes(segments) ==
    IF segments = <<>> THEN "" ELSE "/" \o Head(segments) \o JoinSlashes(Tail(segments))

(* vscode.Uri.joinPath(base, rel): posix.join of the two paths. *)
joinPath(base, rel) ==
    LET segments == normalize(SplitPath(base \o "/" \o rel), <<>>)
    IN  IF segments = <<>> THEN "/" ELSE JoinSlashes(segments)

(* A resolution against the importing file instead of its directory. *)
resolveRelativePath_FromFile(relativePath, from) == joinPath(from, relativePath)

(* DependencyResolver.resolveRelativePath *)
resolveRelativePath(relativePath, from) ==
    LET fromDir == joinPath(from, "..")
    IN  joinPath(fromDir, relativePath)

(* DependencyResolver.resolveDependencies(imports, currentFile) *)
RECURSIVE resolveDependenciesOf(_, _)
resolveDependenciesOf(imports, currentFile) ==
    IF imports = <<>> THEN <<>>
    ELSE IF Head(imports).type = "file"
         THEN <<resolveRelativePath(Head(imports).source, currentFile)>>
                  \o resolveDependenciesOf(Tail(imports), currentFile)
         ELSE resolveDependenciesOf(Tail(imports), currentFile)

SourceLists == UNION {[1 .. n -> ImportSources] : n \in 0 .. MaxImports}

(* A file has been read and parsed: uri is the file, sources the sources of
   its import nodes. *)
ParsedFile(uri, sources) == [op |-> "parse", uri |-> uri, sources |-> sources]

InitImports ==
    /\ FacadeIdle
    /\ gen = 1
    /\ persistent = FALSE
    /\ folder = AtRoot
    /\ events = {}
    /\ tasks = {}
    /\ edits = 0
    /\ last \in {ParsedFile(uri, sources) : uri \in ImportingFiles, sources \in SourceLists}
    /\ FileSideIdle
    /\ manifests = [m \in Manifests |-> NoManifest]
    /\ registry = BuiltinModules
    /\ moduleRows = [n \in ModuleNames |-> NoModuleRow]
    /\ componentRows = {}
    /\ mscan = <<>>

(* indexFileForBatch from the extraction on: the imports of the parsed text
   and the edges resolved from them go into the entry. *)
ExtractEntry ==
    /\ last.op = "parse"
    /\ LET imports == extractImports(last.sources)
           dependsOn == resolveDependenciesOf(imports, last.uri)
       IN  last' = [op |-> "extractImports", uri |-> last.uri, sources |-> last.sources,
                    imports |-> imports, dependsOn |-> dependsOn, dependedBy |-> <<>>]
    /\ UNCHANGED <<gen, persistent, folder, facadeSide, events, tasks, edits, fileSide, moduleSide>>

NextImports == ExtractEntry

(* Import extraction and dependency resolution of generation 1 as functions
   of the importing file and its import sources. *)
SpecImports == InitImports /\ [][NextImports]_vars

(* The directory of a path: the path up to its last slash. *)
ParentDirectory(path) ==
    LET slashes == {i \in 1 .. Len(path) : SubSeq(path, i, i) = "/"}
        lastSlash == CHOOSE i \in slashes : \A j \in slashes : j <= i
    IN  SubSeq(path, 1, lastSlash - 1)

(* The source begins with `.` or `/` and names a source file. *)
IsFileSource(source) ==
    /\ SubSeq(source, 1, 1) \in {".", "/"}
    /\ Len(source) >= 4 /\ SubSeq(source, Len(source) - 3, Len(source)) = ".qml"

(* C32: the dependsOn of an entry holds, in the order of the imports, one
   edge for each import whose source begins with `.` or `/` and names a
   source file, the target being the source joined against the directory of
   the importing file; the other imports give no edge. *)
C32_DependencyExtraction ==
    (last.op = "extractImports") =>
        LET fileSources == SelectSeq(last.sources, IsFileSource)
        IN  /\ Len(last.dependsOn) = Len(fileSources)
            /\ \A k \in 1 .. Len(fileSources) :
                   last.dependsOn[k] = joinPath(ParentDirectory(last.uri), fileSources[k])
            /\ \A i \in 1 .. Len(last.imports) :
                   (last.imports[i].type = "file") <=> IsFileSource(last.sources[i])

(* C32 witness: a file two folders down imports a module and a file of the
   folder above; the one edge leads to that file. *)
C32_Witness ==
    /\ last.op = "extractImports"
    /\ last.uri = "/ws/ui/views/D.qml"
    /\ last.sources = <<"QtQuick", "../A.qml">>
    /\ last.dependsOn = <<"/ws/ui/A.qml">>

----------------------------------------------------------------------------
(* Overlapping writes on the one connection of the store *)

MaxSaves == 3

(* What a save writes: the row of a source file (saveQmlFilesBatch with one
   file) or a module with its components (saveModule). *)
SaveMenu ==
    {[kind |-> "files", target |-> f] : f \in SmallFiles}
        \cup {[kind |-> "module", target |-> m] : m \in StoreManifests}

InitTxn ==
    /\ FacadeIdle
    /\ gen \in {1, 2}
    /\ persistent = TRUE
    /\ folder = AtRoot
    /\ fs = [f \in Files |-> IF f \in SmallFiles
                             THEN [exists |-> TRUE, text |-> EmptyText, mtime |-> 1] ELSE NoFile]
    /\ fileIndex = [f \in Files |-> NoEntry]
    /\ qmlRows = [f \in Files |-> NoRow]
    /\ scan = Idle(FALSE)
    /\ manifests = [m \in Manifests |-> IF m \in StoreManifests
                                        THEN [exists |-> TRUE, text |-> TextOther, mtime |-> 1]
                                        ELSE NoManifest]
    /\ registry = BuiltinModules
    /\ moduleRows = [n \in ModuleNames |-> NoModuleRow]
    /\ componentRows = {}
    /\ mscan = <<>>
    /\ events = {}
    /\ tasks = {}
    /\ last = NoResult
    /\ edits = 0

(* The statements of the journal take effect on the tables. *)
RECURSIVE ApplyJournal(_, _)
ApplyJournal(journal, tables) ==
    IF journal = <<>> THEN tables
    ELSE LET w == Head(journal)
             next ==
                 IF w.kind = "files"
                 THEN [tables EXCEPT !.files =
                          saveQmlFilesBatch(@, <<[file |-> w.target,
                                                  entry |-> ParsedEntry(gen, fs[w.target].text,
                                                                        fs[w.target].mtime)]>>,
                                            {}, FALSE).rows]
                 ELSE LET r == saveModule(gen, tables.modules, tables.components, manifests,
                                          ModuleOfText(gen, w.target, manifests[w.target].text),
                                          {}, FALSE)
                      IN  [tables EXCEPT !.modules = r.mrows, !.components = r.crows]
         IN  ApplyJournal(Tail(journal), next)

(* The saves whose statements the open transaction holds. *)
SavesIn(journal) == {journal[i].save : i \in 1 .. Len(journal)}

(* saveQmlFilesBatch / saveModule up to the return of the serialize block:
   BEGIN TRANSACTION, the statements and finalize are queued on the
   connection in one turn and run in that order. A BEGIN inside an open
   transaction fails, nobody listening; the statements run in the
   transaction that is open. *)
SaveIssue(id, w, finalizeErr) ==
    /\ id = Cardinality(tasks) + 1
    /\ id <= MaxSaves
    /\ tasks' = tasks \cup {[id |-> id, kind |-> w.kind, target |-> w.target,
                             finalizeErr |-> finalizeErr, phase |-> "issued"]}
    /\ db' = [inTransaction |-> TRUE,
              journal |-> Append(db.journal, [save |-> id, kind |-> w.kind, target |-> w.target])]
    /\ last' = [op |-> "saveIssued", save |-> id, ok |-> ~db.inTransaction,
                committed |-> {}, rolledBack |-> {}]
    /\ UNCHANGED <<gen, persistent, folder, service, events, edits, fileSide, moduleSide>>

(* The finalize callback of the oldest save that has not settled: ROLLBACK
   and reject on an error, COMMIT otherwise, the promise settled by the
   outcome of COMMIT. Both act on the transaction that is open then. *)
SaveSettle ==
    /\ \E t \in tasks : t.phase = "issued"
    /\ LET t == CHOOSE x \in tasks : x.phase = "issued" /\ \A y \in tasks : y.phase = "issued" => x.id <= y.id
           tables == ApplyJournal(db.journal,
                                  [files |-> qmlRows, modules |-> moduleRows, components |-> componentRows])
           commits == ~t.finalizeErr /\ db.inTransaction
       IN  /\ qmlRows' = IF commits THEN tables.files ELSE qmlRows
           /\ moduleRows' = IF commits THEN tables.modules ELSE moduleRows
           /\ componentRows' = IF commits THEN tables.components ELSE componentRows
           /\ db' = NoTransaction
           /\ tasks' = (tasks \ {t}) \cup {[t EXCEPT !.phase = IF commits THEN "resolved" ELSE "rejected"]}
           /\ last' = [op |-> "saveSettled", save |-> t.id, ok |-> commits,
                       committed |-> IF commits THEN SavesIn(db.journal) ELSE {},
                       rolledBack |-> IF t.finalizeErr /\ db.inTransaction
                                      THEN SavesIn(db.journal) ELSE {}]
    /\ UNCHANGED <<gen, persistent, folder, service, events, edits, fs, fileIndex, scan,
                   manifests, registry, mscan>>

NextTxn ==
    \/ \E id \in 1 .. MaxSaves, w \in SaveMenu, finalizeErr \in BOOLEAN : SaveIssue(id, w, finalizeErr)
    \/ SaveSettle

(* Saves of the two indexers on the connection they share, a save issued
   before or after the one before it has settled. *)
SpecTxn == InitTxn /\ [][NextTxn]_vars

(* The rows a save writes are in the store. *)
RowsInStore(t) ==
    IF t.kind = "files" THEN qmlRows[t.target].present
    ELSE moduleRows[ModuleOfText(gen, t.target, manifests[t.target].text).name].present

(* C33: the COMMIT or ROLLBACK of a save makes durable or undoes the
   statements of that save only, and the rows of every save that has
   succeeded are in the store. *)
C33_WriteIsolation ==
    /\ (last.op = "saveSettled") =>
           /\ last.committed \subseteq {last.save}
           /\ last.rolledBack \subseteq {last.save}
    /\ \A t \in tasks : (t.phase = "resolved") => RowsInStore(t)

----------------------------------------------------------------------------
(* The batch loop of indexWorkspace under any configured batch size *)

(* Values of qml.indexing.batchSize. *)
BatchSizes == {-1, 0, 1, 2, 3}

(* How far below zero the loop counter is followed. *)
MaxLoop == 2

(* Array.prototype.slice(start, end) *)
slice(s, start, end) ==
    LET from == IF start < 0 THEN (IF Len(s) + start < 0 THEN 0 ELSE Len(s) + start)
                ELSE Min(start, Len(s))
        to   == IF end < 0 THEN (IF Len(s) + end < 0 THEN 0 ELSE Len(s) + end)
                ELSE Min(end, Len(s))
    IN  SubSeq(s, from + 1, to)

InitLoop ==
    /\ FacadeIdle
    /\ gen \in {1, 2}
    /\ persistent \in (IF gen = 1 THEN BOOLEAN ELSE {TRUE})
    /\ folder = AtRoot
    /\ fs \in [Files -> {NoFile, [exists |-> TRUE, text |-> EmptyText, mtime |-> 1]}]
    /\ fileIndex = [f \in Files |-> NoEntry]
    /\ qmlRows = [f \in Files |-> NoRow]
    /\ scan = Idle(FALSE)
    /\ events = {}
    /\ tasks = {}
    /\ last = NoResult
    /\ edits = 0
    /\ manifests = [m \in Manifests |-> NoManifest]
    /\ registry = BuiltinModules
    /\ moduleRows = [n \in ModuleNames |-> NoModuleRow]
    /\ componentRows = {}
    /\ mscan = <<>>

(* The scan with its loop counter: qmlFiles is the enumeration, batches the
   batches submitted so far that had a member. *)
LoopScan(phase, qmlFiles, i, batchSize, batches) ==
    [phase |-> phase, todo |-> qmlFiles, done |-> phase = "returned", i |-> i,
     batchSize |-> batchSize, batches |-> batches]

(* indexWorkspace up to the loop: the rows of the store are loaded, the files
   enumerated, the batch size read. Generation 1 returns when there is no
   file. *)
LoopStart(batchSize) ==
    /\ scan.phase = "idle"
    /\ LET ld == IF persistent THEN loadAllQmlFiles(qmlRows, fs)
                 ELSE [loaded |-> [f \in Files |-> NoEntry], rows |-> qmlRows]
       IN  /\ fileIndex' = Overlay(fileIndex, ld.loaded)
           /\ qmlRows' = ld.rows
    /\ scan' = IF gen = 1 /\ FoundFiles = <<>>
               THEN LoopScan("returned", FoundFiles, 0, batchSize, <<>>)
               ELSE LoopScan("loop", FoundFiles, 0, batchSize, <<>>)
    /\ UNCHANGED <<gen, persistent, folder, facadeSide, tasks, fs, events, edits, last, moduleSide>>

(* for (let i = 0; i < qmlFiles.length; i += batchSize): the test and, when
   it holds, one pass of the body; when it fails generation 1 builds the
   dependency graph and indexWorkspace returns. *)
LoopStep ==
    /\ scan.phase = "loop"
    /\ scan.i > -MaxLoop
    /\ IF scan.i < Len(scan.todo)
       THEN LET B == scan.batchSize
                batch == IF gen = 1
                         THEN slice(scan.todo, scan.i, Min(scan.i + B, Len(scan.todo)))
                         ELSE slice(scan.todo, scan.i, scan.i + B)
                r == IF gen = 1 THEN Batch1(fileIndex, fileIndex, qmlRows, batch)
                     ELSE [Batch2(fileIndex, qmlRows, batch) EXCEPT !.writes = Queued2(fileIndex, batch)]
                saved == IF persistent THEN saveQmlFilesBatch(r.rows, r.writes, {}, FALSE)
                         ELSE [ok |-> TRUE, rows |-> r.rows]
            IN  /\ fileIndex' = r.index
                /\ qmlRows' = saved.rows
                /\ scan' = LoopScan("loop", scan.todo, scan.i + B, B,
                                    IF batch = <<>> THEN scan.batches
                                    ELSE Append(scan.batches, batch))
       ELSE /\ fileIndex' = IF gen = 1 THEN buildDependencyGraph(fileIndex) ELSE fileIndex
            /\ qmlRows' = qmlRows
            /\ scan' = LoopScan("returned", scan.todo, scan.i, scan.batchSize, scan.batches)
    /\ UNCHANGED <<gen, persistent, folder, facadeSide, tasks, fs, events, edits, last, moduleSide>>

NextLoop ==
    \/ \E batchSize \in BatchSizes : LoopStart(batchSize)
    \/ LoopStep

(* One call of indexWorkspace; the awaits of the loop body settle, so that
   the loop goes on while its test holds. *)
SpecLoop == InitLoop /\ [][NextLoop]_vars /\ WF_vars(NextLoop)

(* How many batches have f as a member, f counted once for each place. *)
Submissions(f) ==
    Cardinality({<<b, k>> \in (1 .. Len(scan.batches)) \X (1 .. Cardinality(Files)) :
                    k <= Len(scan.batches[b]) /\ scan.batches[b][k] = f})

(* C34: indexWorkspace returns, and when it does every enumerated file has
   been submitted for indexing once, in one batch. *)
C34_ScanTermination ==
    <>(/\ scan.phase = "returned"
       /\ \A f \in Files : Submissions(f) = (IF f \in SeqToSet(scan.todo) THEN 1 ELSE 0))

----------------------------------------------------------------------------
(* Startup: IndexerService.initialize and the first indexWorkspace *)

MaxCalls == 2

(* The store as an earlier session may have left it. *)
StartupModule == ModuleOfText(gen, "Widgets/qmldir", TextOther)

StartupDisk ==
    [m \in Manifests |-> IF m = "Widgets/qmldir" THEN [exists |-> TRUE, text |-> TextOther, mtime |-> 1]
                         ELSE NoManifest]

InitStartup ==
    /\ FacadeIdle
    /\ gen \in {1, 2}
    /\ persistent \in (IF gen = 1 THEN BOOLEAN ELSE {TRUE})
    /\ folder = AtRoot
    /\ fs = [f \in Files |-> IF f = "A.qml" THEN [exists |-> TRUE, text |-> EmptyText, mtime |-> 1]
                             ELSE NoFile]
    /\ fileIndex = [f \in Files |-> NoEntry]
    /\ qmlRows \in {[f \in Files |-> NoRow],
                    [f \in Files |-> IF f = "A.qml" THEN RowOfEntry(ParsedEntry(gen, EmptyText, 1))
                                     ELSE NoRow]}
    /\ scan = Idle(FALSE)
    /\ manifests = StartupDisk
    /\ registry = <<>>
    /\ \E stored \in BOOLEAN :
           LET r == saveModule(gen, [n \in ModuleNames |-> NoModuleRow], {}, StartupDisk,
                               StartupModule, {}, FALSE)
           IN  /\ moduleRows = IF stored THEN r.mrows ELSE [n \in ModuleNames |-> NoModuleRow]
               /\ componentRows = IF stored THEN r.crows ELSE {}
    /\ mscan = <<>>
    /\ events = {}
    /\ tasks = {}
    /\ last = NoResult
    /\ edits = 0

(* A step of the call of initialize numbered id. *)
InitializeResult(id) == [op |-> "initialize", call |-> id]

(* IndexerService.initialize up to its first await. A call that finds
   isInitialized set returns. Generation 2 creates the CacheStore and awaits
   its initialize; generation 1 starts the initialize of its two indexers. *)
InitializeCall ==
    /\ service.calls < MaxCalls
    /\ LET id == service.calls + 1
       IN  /\ last' = InitializeResult(id)
           /\ IF service.isInitialized
              THEN /\ service' = [service EXCEPT !.calls = id]
                   /\ tasks' = tasks
              ELSE /\ service' = [service EXCEPT
                                     !.calls = id,
                                     !.connections = IF gen = 2 THEN @ + 1 ELSE @,
                                     !.steps = IF gen = 2 THEN Append(@, "store") ELSE @]
                   /\ tasks' = tasks \cup {[id |-> id,
                                            phase |-> IF gen = 2 THEN "cache" ELSE "indexers",
                                            filesDone |-> FALSE, modulesDone |-> FALSE]}
    /\ UNCHANGED <<gen, persistent, folder, db, events, edits, fileSide, moduleSide>>

(* Generation 2, cache.initialize() has resolved: a new QmlFileIndexer and a
   new ModuleIndexer take the place of the ones the facade held, and their
   initialize is started. *)
InitializeIndexers(id) ==
    /\ gen = 2
    /\ \E t \in tasks :
           /\ t.id = id /\ t.phase = "cache"
           /\ tasks' = (tasks \ {t}) \cup {[t EXCEPT !.phase = "indexers"]}
    /\ fileIndex' = [f \in Files |-> NoEntry]
    /\ registry' = <<>>
    /\ last' = InitializeResult(id)
    /\ UNCHANGED <<gen, persistent, folder, facadeSide, events, edits, fs, qmlRows, scan,
                   manifests, moduleRows, componentRows, mscan>>

(* QmlFileIndexer.initialize: the parser is ready; generation 1 opens a
   CacheStore of its own when a workspace folder is open; the watcher is
   created and started. *)
InitializeFiles(id) ==
    /\ \E t \in tasks :
           /\ t.id = id /\ t.phase = "indexers" /\ ~t.filesDone
           /\ tasks' = (tasks \ {t}) \cup {[t EXCEPT !.filesDone = TRUE]}
    /\ service' = [service EXCEPT
                      !.connections = IF gen = 1 /\ persistent THEN @ + 1 ELSE @,
                      !.fileWatchers = @ + 1,
                      !.steps = @ \o (IF gen = 1 /\ persistent THEN <<"store">> ELSE <<>>)
                                  \o <<"files.watch">>]
    /\ last' = InitializeResult(id)
    /\ UNCHANGED <<gen, persistent, folder, db, events, edits, fileSide, moduleSide>>

(* ModuleIndexer.initialize: generation 1 opens a CacheStore of its own; the
   valid module rows are loaded into the registry, the builtin catalog is
   entered and the watcher is created and started (generation 1: watcher,
   then catalog). *)
InitializeModules(id) ==
    /\ \E t \in tasks :
           /\ t.id = id /\ t.phase = "indexers" /\ ~t.modulesDone
           /\ tasks' = (tasks \ {t}) \cup {[t EXCEPT !.modulesDone = TRUE]}
    /\ LET ld == IF persistent THEN loadAllModules(moduleRows, componentRows, manifests)
                 ELSE [loaded |-> <<>>, mrows |-> moduleRows]
       IN  /\ registry' = cacheSetAll(cacheSetAll(registry, ld.loaded), BuiltinModules)
           /\ moduleRows' = ld.mrows
    /\ service' = [service EXCEPT
                      !.connections = IF gen = 1 /\ persistent THEN @ + 1 ELSE @,
                      !.moduleWatchers = @ + 1,
                      !.steps = @ \o (IF gen = 1 /\ persistent THEN <<"store">> ELSE <<>>)
                                  \o (IF persistent THEN <<"modules.load">> ELSE <<>>)
                                  \o <<"modules.watch">>]
    /\ last' = InitializeResult(id)
    /\ UNCHANGED <<gen, persistent, folder, db, events, edits, fileSide, manifests,
                   componentRows, mscan>>

(* Both indexers are initialized: isInitialized is set and the call returns. *)
InitializeDone(id) ==
    /\ \E t \in tasks :
           /\ t.id = id /\ t.phase = "indexers" /\ t.filesDone /\ t.modulesDone
           /\ tasks' = tasks \ {t}
    /\ service' = [service EXCEPT !.isInitialized = TRUE]
    /\ last' = InitializeResult(id)
    /\ UNCHANGED <<gen, persistent, folder, db, events, edits, fileSide, moduleSide>>

(* activate: once initialize has returned, indexWorkspace is started: the
   valid rows of qml_files are loaded into the index and the files are
   enumerated. *)
StartupScanStart ==
    /\ service.isInitialized
    /\ scan.phase = "idle" /\ ~scan.done
    /\ LET ld == IF persistent THEN loadAllQmlFiles(qmlRows, fs)
                 ELSE [loaded |-> [f \in Files |-> NoEntry], rows |-> qmlRows]
       IN  /\ fileIndex' = Overlay(fileIndex, ld.loaded)
           /\ qmlRows' = ld.rows
    /\ scan' = [phase |-> "batches", todo |-> FoundFiles, done |-> FALSE]
    /\ service' = [service EXCEPT
                      !.steps = @ \o (IF persistent THEN <<"files.load">> ELSE <<>>)
                                  \o <<"scan.begin">>]
    /\ last' = NoResult
    /\ UNCHANGED <<gen, persistent, folder, db, tasks, fs, events, edits, moduleSide>>

(* The batches of the scan; after the last generation 1 builds the dependency
   graph. *)
StartupScanBatch ==
    /\ scan.phase = "batches"
    /\ LET n == Min(BATCH_SIZE, Len(scan.todo))
           batch == SubSeq(scan.todo, 1, n)
           rest == SubSeq(scan.todo, n + 1, Len(scan.todo))
           r == IF gen = 1 THEN Batch1(fileIndex, fileIndex, qmlRows, batch)
                ELSE [Batch2(fileIndex, qmlRows, batch) EXCEPT !.writes = Queued2(fileIndex, batch)]
           saved == IF persistent THEN saveQmlFilesBatch(r.rows, r.writes, {}, FALSE)
                    ELSE [ok |-> TRUE, rows |-> r.rows]
       IN  /\ fileIndex' = IF gen = 1 /\ rest = <<>> THEN buildDependencyGraph(r.index) ELSE r.index
           /\ qmlRows' = saved.rows
           /\ scan' = IF rest = <<>> THEN Idle(TRUE)
                      ELSE [phase |-> "batches", todo |-> rest, done |-> FALSE]
           /\ service' = [service EXCEPT
                             !.steps = IF rest # <<>> THEN @
                                       ELSE @ \o <<"scan.end">> \o (IF gen = 1 THEN <<"graph">> ELSE <<>>)]
    /\ last' = NoResult
    /\ UNCHANGED <<gen, persistent, folder, db, tasks, fs, events, edits, moduleSide>>

NextStartup ==
    \/ InitializeCall
    \/ \E id \in 1 .. MaxCalls : InitializeIndexers(id)
    \/ \E id \in 1 .. MaxCalls : InitializeFiles(id)
    \/ \E id \in 1 .. MaxCalls : InitializeModules(id)
    \/ \E id \in 1 .. MaxCalls : InitializeDone(id)
    \/ StartupScanStart
    \/ StartupScanBatch

(* The facade from its construction to the end of the first scan, initialize
   called once or twice. *)
SpecStartup == InitStartup /\ [][NextStartup]_vars

(* C35: whatever the number of initialize calls and however they overlap,
   at most one store connection, one watcher of source files and one watcher
   of manifests are created, exactly one of each once a call has set
   isInitialized, and no step of a call after the first changes the index. *)
C35_InitializeIdempotent ==
    [][/\ service'.connections <= 1
       /\ service'.fileWatchers <= 1
       /\ service'.moduleWatchers <= 1
       /\ service'.isInitialized =>
              /\ service'.connections = 1
              /\ service'.fileWatchers = 1
              /\ service'.moduleWatchers = 1
       /\ (last'.op = "initialize" /\ last'.call > 1) =>
              /\ fileIndex' = fileIndex
              /\ registry' = registry]_vars

(* The place of the first step named x in the startup steps, 0 if none. *)
FirstStep(x) ==
    LET at == {i \in 1 .. Len(service.steps) : service.steps[i] = x}
    IN  IF at = {} THEN 0 ELSE CHOOSE i \in at : \A j \in at : i <= j

(* Step a has been taken before step b is. *)
StepBefore(a, b) == FirstStep(b) # 0 => (FirstStep(a) # 0 /\ FirstStep(a) < FirstStep(b))

(* C36: with a store, the store is opened first; the rows of both indices
   are loaded before the watcher of that index is started; both watchers are
   started before the scan begins; the reverse edges are built after the
   scan has ended. *)
C36_StartupOrder ==
    persistent =>
        /\ service.steps # <<>> => service.steps[1] = "store"
        /\ StepBefore("files.load", "files.watch")
        /\ StepBefore("modules.load", "modules.watch")
        /\ StepBefore("files.watch", "scan.begin")
        /\ StepBefore("modules.watch", "scan.begin")
        /\ StepBefore("scan.end", "graph")

----------------------------------------------------------------------------
(* C37: no two entries of the registry and no two rows of the modules table
   come from the same manifest; and when the handled change of a manifest
   has altered the name the manifest declares, neither the registry entry
   nor the row of the old name from that manifest remains. *)
C37_OneModulePerManifest ==
    /\ \A m \in Manifests :
           /\ Cardinality({i \in 1 .. Len(registry) : registry[i].qmldirPath = m}) <= 1
           /\ Cardinality({n \in ModuleNames : /\ moduleRows[n].present
                                               /\ moduleRows[n].qmldirPath = m}) <= 1
    /\ (/\ last.op = "qmldirChanged"
        /\ last.registered # ""
        /\ DeclaredName(gen, last.manifest, manifests[last.manifest].text) \notin {"", last.registered}) =>
           /\ \A i \in 1 .. Len(registry) :
                  ~(registry[i].name = last.registered /\ registry[i].qmldirPath = last.manifest)
           /\ ~(/\ moduleRows[last.registered].present
                /\ moduleRows[last.registered].qmldirPath = last.manifest)

----------------------------------------------------------------------------
(* clearCache of the facade *)

(* How many clearCache calls a behaviour has. *)
MaxClears == 1

(* A clear of the store that leaves the components table as it is. *)
clearStore_KeepComponents(tables) ==
    [files |-> [f \in Files |-> NoRow],
     modules |-> [n \in ModuleNames |-> NoModuleRow],
     components |-> tables.components]

(* CacheStore.clearCache: DELETE FROM qml_files, components, modules. *)
clearStore(tables) ==
    [files |-> [f \in Files |-> NoRow],
     modules |-> [n \in ModuleNames |-> NoModuleRow],
     components |-> {}]

(* The facade after one initialize, its steps not recorded. *)
InitializedService ==
    [isInitialized |-> TRUE, calls |-> 1,
     connections |-> IF gen = 2 THEN 1 ELSE IF persistent THEN 2 ELSE 0,
     fileWatchers |-> 1, moduleWatchers |-> 1, steps |-> <<>>]

InitClear ==
    /\ gen \in {1, 2}
    /\ persistent \in (IF gen = 1 THEN BOOLEAN ELSE {TRUE})
    /\ db = NoTransaction
    /\ service = InitializedService
    /\ folder = AtRoot
    /\ fs \in [Files -> {NoFile, [exists |-> TRUE, text |-> EmptyText, mtime |-> 1]}]
    /\ \A f \in Files \ SmallFiles : ~fs[f].exists
    /\ fileIndex = [f \in Files |-> NoEntry]
    /\ qmlRows = [f \in Files |-> NoRow]
    /\ scan = Idle(FALSE)
    /\ manifests \in [Manifests -> {NoManifest} \cup
                                   [exists : {TRUE}, text : {TextButton, TextOther}, mtime : {1}]]
    /\ registry = BuiltinModules
    /\ moduleRows = [n \in ModuleNames |-> NoModuleRow]
    /\ componentRows = {}
    /\ mscan = <<>>
    /\ events = {}
    /\ tasks = {}
    /\ last = NoResult
    /\ edits = 0

(* IndexerService.clearCache / clearIndex: both in-memory maps are cleared
   and the three tables of the store are emptied. alone: no scan was under
   way; hadEntries, hadRows: what there was to clear. *)
ClearCache ==
    /\ Len(service.steps) < MaxClears
    /\ LET tables == clearStore([files |-> qmlRows, modules |-> moduleRows,
                                 components |-> componentRows])
       IN  /\ qmlRows' = IF persistent THEN tables.files ELSE qmlRows
           /\ moduleRows' = IF persistent THEN tables.modules ELSE moduleRows
           /\ componentRows' = IF persistent THEN tables.components ELSE componentRows
    /\ fileIndex' = [f \in Files |-> NoEntry]
    /\ registry' = <<>>
    /\ service' = [service EXCEPT !.steps = Append(@, "clearCache")]
    /\ last' = [op |-> "clearCache",
                alone |-> scan.phase = "idle" /\ mscan = <<>>,
                hadEntries |-> \E f \in Files : fileIndex[f].live,
                hadRows |-> /\ \E f \in Files : qmlRows[f].present
                            /\ \E n \in ModuleNames : moduleRows[n].present
                            /\ componentRows # {}]
    /\ UNCHANGED <<gen, persistent, folder, db, tasks, events, edits, fs, scan, manifests, mscan>>

NextClear ==
    \/ ScanStart
    \/ ScanBatch
    \/ ModuleScanStart
    \/ ModuleScanStep
    \/ ClearCache

(* The initialized indexers, their scans and the clearCache command. *)
SpecClear == InitClear /\ [][NextClear]_vars

(* C38: after a clearCache that ran with no scan under way the index holds
   no source-file entry, the registry no module registered from a manifest,
   and the store no row in any of its three tables. *)
C38_ClearCacheEmptiesBoth ==
    (last.op = "clearCache" /\ last.alone) =>
        /\ \A f \in Files : ~fileIndex[f].live
        /\ \A i \in 1 .. Len(registry) : registry[i].qmldirPath = NoPath
        /\ \A f \in Files : ~qmlRows[f].present
        /\ \A n \in ModuleNames : ~moduleRows[n].present
        /\ componentRows = {}

(* C38 witness: a clearCache with no scan under way has cleared an index
   with entries and a store with rows in its three tables. *)
C38_Witness ==
    /\ last.op = "clearCache"
    /\ last.alone
    /\ last.hadEntries
    /\ last.hadRows

(* C39: once clearCache has run, also after a scan that follows it,
   resolveModule still returns, for every module of the builtin catalog, the
   builtin entry of that name. *)
C39_BuiltinsSurviveClear ==
    ("clearCache" \in SeqToSet(service.steps)) =>
        \A i \in 1 .. Len(BuiltinModules) :
            LET r == resolveModule(gen, registry, BuiltinModules[i].name, "")
            IN  /\ r.found
                /\ r.module.name = BuiltinModules[i].name
                /\ r.module.qmldirPath = NoPath
                /\ \A c \in r.module.components : c.isBuiltin

----------------------------------------------------------------------------
(* The uris the dependsOn of x names that have no entry. *)
MissingTargets(index, x) == {u \in SeqToSet(index[x].dependsOn) : ~index[u].live}

(* C40: an entry whose dependsOn names a uri without an entry stays in the
   index through the rebuild of the reverse edges at the end of a scan and
   through the cascade of a change or delete event it does not depend on,
   and neither gives the missing uri an entry or a dependedBy edge. *)
C40_MissingDependency ==
    [][\A x \in Files :
          (fileIndex[x].live /\ MissingTargets(fileIndex, x) # {}) =>
              /\ (scan.phase = "batches" /\ scan'.phase = "idle") =>
                     /\ fileIndex'[x].live
                     /\ \A u \in MissingTargets(fileIndex', x) : fileIndex'[u] = NoEntry
              /\ (/\ last'.op \in {"change", "delete"}
                  /\ x \notin Dependents(fileIndex, {last'.file}) \cup {last'.file}) =>
                     /\ fileIndex'[x] = fileIndex[x]
                     /\ \A u \in MissingTargets(fileIndex, x) \ {last'.file} :
                            fileIndex'[u] = NoEntry]_vars

(* C40 witness: the scan has completed and a cascade has run while an entry
   other than the invalidated one names a uri without an entry. *)
C40_Witness ==
    /\ scan.done
    /\ last.op \in {"change", "delete"}
    /\ \E x \in Files \ {last.file} :
           /\ fileIndex[x].live
           /\ MissingTargets(fileIndex, x) \ {last.file} # {}

====
